---------------------------- MODULE Spec2Model ----------------------------
(***************************************************************************)
(* A model of the scam-honeypot reply pipeline: the per-session           *)
(* DynamicStateManager (src/state_manager.py), the guardrail pipeline of  *)
(* GroqHandler (src/groq_handler.py) and the rule-based replies of        *)
(* ConversationAgent (src/agent.py), driven by HoneypotHandler            *)
(* (src/honeypot.py).                                                     *)
(*                                                                         *)
(* Representation of text.  A text is a sequence of sentences, split      *)
(* where _truncate_to_two_sentences splits (after . ! ? followed by white *)
(* space).  A sentence is a record                                        *)
(*     w  its words: the lower-cased blank-separated tokens, as strings   *)
(*     m  its markers: for each regular expression that the program       *)
(*        applies to replies, the marker of that expression is in m       *)
(*        exactly when the expression matches the sentence                *)
(*     e  what the ledger patterns (_extract_facts_from_message) extract  *)
(*        from it: pairs <<kind, value without blanks, - and +>>          *)
(*     n  its number of characters                                        *)
(*     t  whether it ends with . ! or ? (a phrase such as an              *)
(*        acknowledgment prefix does not)                                 *)
(* The markers, extractions and lengths of the program's own strings were *)
(* computed by running the program's expressions on them.  Values (UPI    *)
(* ids, numbers, links) are strings, and the operations on them           *)
(* (normalisation, last four characters, containment, replacement) work   *)
(* on their characters.  Em dashes of the source are written "--".        *)
(***************************************************************************)
EXTENDS Integers, Sequences, FiniteSets, TLC

VARIABLES
    llm_available,    \* GroqHandler.is_available(): fixed at construction
    state_managers,   \* GroqHandler.state_managers: session id -> manager
    session_states,   \* ConversationAgent.session_states: session id -> SessionState
    history,          \* session id -> the conversation so far (request.conversationHistory)
    last_call,        \* what the last processed message did (observation only)
    probe             \* input and output of the last direct API call (observation only)

vars == <<llm_available, state_managers, session_states, history, last_call, probe>>

-----------------------------------------------------------------------------
(* Strings *)

Max(a, b) == IF a >= b THEN a ELSE b

Min(a, b) == IF a <= b THEN a ELSE b

\* s[-4:]
Last4(s) == SubSeq(s, Max(Len(s) - 3, 1), Len(s))

\* s[-10:]
Last10(s) == SubSeq(s, Max(Len(s) - 9, 1), Len(s))

RECURSIVE KeepChars(_, _, _)
\* the characters of s that are in chars (keep) or not in chars (~keep)
KeepChars(s, chars, keep) ==
    IF Len(s) = 0 THEN ""
    ELSE LET c == SubSeq(s, 1, 1)
         IN  (IF (c \in chars) = keep THEN c ELSE "")
                \o KeepChars(SubSeq(s, 2, Len(s)), chars, keep)

DigitChars == {"0", "1", "2", "3", "4", "5", "6", "7", "8", "9"}

\* re.sub(r'[\s\-+]', '', s)
clean(s) == KeepChars(s, {" ", "-", "+"}, FALSE)

\* re.sub(r"\D", "", s)
Digits(s) == KeepChars(s, DigitChars, TRUE)

\* sub in s
Contains(s, sub) ==
    \E i \in 1..(Len(s) - Len(sub) + 1) : SubSeq(s, i, i + Len(sub) - 1) = sub

RECURSIVE Replace(_, _, _)
\* re.sub(re.escape(sub), by, s): every occurrence, from the left
Replace(s, sub, by) ==
    IF Len(sub) = 0 \/ ~Contains(s, sub) THEN s
    ELSE LET i == CHOOSE j \in 1..(Len(s) - Len(sub) + 1) :
                    /\ SubSeq(s, j, j + Len(sub) - 1) = sub
                    /\ \A k \in 1..(j - 1) : SubSeq(s, k, k + Len(sub) - 1) # sub
         IN  SubSeq(s, 1, i - 1) \o by
                \o Replace(SubSeq(s, i + Len(sub), Len(s)), sub, by)

-----------------------------------------------------------------------------
(* Text *)

Snt(w, m, e, n) == [w |-> w, m |-> m, e |-> e, n |-> n, t |-> TRUE]

Phrase(w, m, e, n) == [w |-> w, m |-> m, e |-> e, n |-> n, t |-> FALSE]

Markers(text) == UNION {text[i].m : i \in DOMAIN text}

\* set(text.lower().split())
Words(text) == UNION {text[i].w : i \in DOMAIN text}

RECURSIVE SumLen(_)
SumLen(text) == IF text = <<>> THEN 0 ELSE text[1].n + SumLen(Tail(text))

\* len(text): the sentences and the single blanks between them
TextLen(text) == IF text = <<>> THEN 0 ELSE SumLen(text) + Len(text) - 1

\* the sentence made of a phrase, a blank and the sentence after it
Merge(a, b) ==
    [w |-> a.w \cup b.w, m |-> a.m \cup b.m, e |-> a.e \o b.e, n |-> a.n + 1 + b.n, t |-> b.t]

\* f"{a} {b}", split into sentences again
Join(a, b) ==
    IF a = <<>> THEN b
    ELSE IF b = <<>> THEN a
    ELSE IF a[Len(a)].t THEN a \o b
    ELSE SubSeq(a, 1, Len(a) - 1) \o <<Merge(a[Len(a)], b[1])>> \o Tail(b)

\* value in text (both lower case)
Mentions(text, value) == \E word \in Words(text) : Contains(word, value)

\* groq_handler._truncate_to_two_sentences
_truncate_to_two_sentences(text) ==
    IF Len(text) <= 2 THEN text ELSE SubSeq(text, 1, 2)

-----------------------------------------------------------------------------
(* Structural skeletons: state_manager.py, FIX BLOCK 4 *)

FeatureOrder ==
    <<"data_ref", "what_if", "fear_lock", "panic",
      "confusion", "skeptical", "compliance", "confirm_req">>

Features == {FeatureOrder[i] : i \in DOMAIN FeatureOrder}

\* state_manager.extract_response_skeleton: the features whose expression
\* matches the response
extract_response_skeleton(response) == Markers(response) \cap Features

\* shared / total >= num / den, with total = max(|new | prev|, 1)
OverlapAtLeast(new, prev, num, den) ==
    Cardinality(new \cap prev) * den >= num * Max(Cardinality(new \cup prev), 1)

\* Strategy 2 without its requirement on the other stored skeleton
HighOverlapWith_one_only(new_skeleton, last_two, i) ==
    LET prev_skeleton == last_two[i]
    IN  /\ new_skeleton # {}
        /\ prev_skeleton # {}
        /\ OverlapAtLeast(new_skeleton, prev_skeleton, 4, 5)

\* Strategy 2 of is_structurally_repetitive for prev_skeleton = last_two[i]
HighOverlapWith(new_skeleton, last_two, i) ==
    LET prev_skeleton == last_two[i]
        other == last_two[3 - i]
    IN  /\ new_skeleton # {}
        /\ prev_skeleton # {}
        /\ OverlapAtLeast(new_skeleton, prev_skeleton, 4, 5)
        /\ other # {}
        /\ OverlapAtLeast(new_skeleton, other, 1, 2)

\* state_manager.is_structurally_repetitive
is_structurally_repetitive(mgr, new_response) ==
    LET new_skeleton == extract_response_skeleton(new_response)
        k == Len(mgr.recent_skeletons)
    IN  IF k < 2 THEN FALSE
        ELSE LET last_two == SubSeq(mgr.recent_skeletons, k - 1, k)
                 common_core == last_two[1] \cap last_two[2]
             IN  \/ /\ Cardinality(common_core) >= 2
                    /\ Cardinality(new_skeleton \cap common_core) >= 2
                 \/ HighOverlapWith(new_skeleton, last_two, 1)
                 \/ HighOverlapWith(new_skeleton, last_two, 2)
                 \/ Cardinality(new_skeleton \cap last_two[1] \cap last_two[2]) >= 2

-----------------------------------------------------------------------------
(* The string pools of state_manager.py *)

\* state_manager.get_process_confusion_stall
all_stalls ==
    << <<Snt({"button?", "exactly", "is", "on", "page", "the", "where"}, {"confusion"}, <<>>, 40),
          Snt({"different", "i", "ones.", "see", "three"}, {}, <<>>, 27)>>,
       <<Snt({"fields,", "for", "i", "is", "one", "otp?", "see", "the", "two", "which"}, {"confusion"}, <<>>, 43)>>,
       <<Snt({"'vpa'", "--", "a", "app", "as", "asking", "for", "gave?", "id", "is", "same", "that", "the", "you"}, {"confirm_req"}, <<>>, 68)>>,
       <<Snt({"10", "a", "banks.", "dropdown", "there's", "with"}, {"confusion"}, <<>>, 33),
          Snt({"do", "i", "one", "pick?", "which"}, {"confusion"}, <<>>, 20)>>,
       <<Snt({"'beneficiary", "asking", "do", "for", "i", "it's", "name.'", "put", "there?", "what"}, {}, <<>>, 56)>>,
       <<Snt({"'ifsc", "'micr", "and", "code'", "code.'", "do", "i", "need?", "one", "see", "which", "you"}, {"confusion"}, <<>>, 57)>>,
       <<Snt({"'forgot", "'verify'", "a", "and", "button.", "has", "page", "password'", "the"}, {}, <<>>, 55),
          Snt({"one?", "which"}, {"confusion"}, <<>>, 10)>>,
       <<Snt({"'enter", "called", "is", "it", "me", "mobile", "number.'", "on?", "one", "registered", "says", "that", "the", "you"}, {"number_word"}, <<>>, 75)>>,
       <<Snt({"'i", "a", "agree", "checkbox", "first?", "i", "it", "says", "should", "terms.'", "that", "there's", "tick", "to"}, {"confusion"}, <<>>, 72)>>,
       <<Snt({"a", "app", "code", "is", "me", "now.", "qr", "showing", "the"}, {}, <<>>, 36),
          Snt({"do", "i", "ignore", "it", "it?", "or", "scan"}, {}, <<>>, 26)>>,
       <<Snt({"'imps.'", "'neft',", "'rtgs',", "and", "i", "is", "it?", "one", "see", "which"}, {"confusion"}, <<>>, 50)>>,
       <<Snt({"'current'.", "'savings'", "asking", "choose", "it's", "me", "or", "to", "wait,"}, {}, <<>>, 54),
          Snt({"one?", "which"}, {"confusion"}, <<>>, 10)>>,
       <<Snt({"button", "confirm", "greyed", "is", "out.", "the"}, {}, <<>>, 33),
          Snt({"click.", "it", "let", "me", "won't"}, {"link_action"}, <<>>, 22)>>,
       <<Snt({"'invalid", "a", "but", "error", "format.'", "format?", "i", "id", "it's", "red", "saying", "showing", "the", "typed", "what"}, {"error_claim", "h_error", "link_action"}, <<>>, 81)>>,
       <<Snt({"and", "back", "i'm", "login", "now", "on", "page", "refreshed", "screen.", "the"}, {}, << <<"case_number", "reshed">> >>, 56),
          Snt({"happened?", "what"}, {}, <<>>, 14)>>,
       <<Snt({"a", "and", "can't", "captcha", "i", "image", "it", "read", "says.", "there's", "what"}, {}, <<>>, 54),
          Snt({"can", "help?", "you"}, {}, <<>>, 13)>>,
       <<Snt({"4-digit", "6-digit", "a", "asking", "but", "for", "i", "it's", "otp?", "pin,", "said", "thought", "you"}, {}, <<>>, 66)>>,
       <<Snt({"'login", "'transaction", "and", "different?", "i", "password'", "password.'", "see", "they're"}, {}, <<>>, 69)>> >>

\* state_manager.get_diversity_replacement: candidates when skeptical is absent
diversity_skeptical ==
    << <<Snt({"a", "and", "call", "fraud.", "got", "it", "my", "neighbor", "similar", "wait,", "was"}, {}, <<>>, 54),
          Snt({"actually", "bank?", "do", "from", "how", "i", "know", "the", "you're"}, {"skeptical"}, <<>>, 44)>>,
       <<Snt({"ask", "banks", "for", "i", "just", "never", "on", "online", "otp", "phone.", "read", "that"}, {}, <<>>, 57),
          Snt({"can", "employee", "give", "id", "me", "to", "verify?", "you", "your"}, {}, <<>>, 43)>>,
       <<Snt({"and", "branch", "can't", "i", "in", "just", "out", "person?", "sort", "the", "this", "tomorrow", "visit", "why"}, {}, <<>>, 71)>>,
       <<Snt({"'do", "anyone.'", "are", "asking", "bank,", "for", "from", "if", "it?", "not", "otp", "says", "share", "sms", "the", "why", "with", "you", "you're"}, {}, <<>>, 96)>>,
       <<Snt({"a", "ask", "badge", "engineer,", "for", "he", "i", "is", "my", "number.", "says", "should", "software", "son", "your"}, {"number_word"}, <<>>, 74),
          Snt({"is", "it?", "what"}, {}, <<>>, 11)>> >>

\* state_manager.get_diversity_replacement: candidates when compliance and what_if are absent
diversity_compliance ==
    << <<Snt({"app", "i'm", "now.", "okay,", "opening", "the"}, {"compliance"}, <<>>, 30),
          Snt({"a", "give", "it's", "me", "moment,", "updating."}, {}, <<>>, 32)>>,
       <<Snt({"found", "i", "mentioned.", "section", "the", "you"}, {}, <<>>, 34),
          Snt({"--", "a", "do", "field", "fill", "first?", "form", "here", "i", "there's", "which"}, {"confusion"}, <<>>, 50)>>,
       <<Snt({"alright,", "bank", "i'm", "now.", "on", "page", "the"}, {"confirm_req"}, <<>>, 34),
          Snt({"asking", "customer", "for", "id.", "it's", "my"}, {}, <<>>, 31),
          Snt({"do", "find", "i", "that?", "where"}, {"confusion"}, <<>>, 21)>> >>

\* state_manager.get_next_tactic
confusion_tactics ==
    << <<Snt({"button", "exactly", "is", "mentioned?", "on", "page", "the", "where", "you"}, {"confusion"}, <<>>, 54)>>,
       <<Snt({"fields", "for", "here,", "i", "is", "one", "otp?", "see", "the", "two", "which"}, {"confusion"}, <<>>, 48)>>,
       <<Snt({"'vpa.'", "app", "asking", "called", "for", "is", "something", "that?", "the", "what"}, {}, <<>>, 59)>>,
       <<Snt({"a", "do", "dropdown", "i", "menu,", "option", "select?", "there's", "which"}, {"confusion"}, <<>>, 50)>>,
       <<Snt({"just", "page", "refreshed.", "the"}, {}, << <<"case_number", "reshed">> >>, 24),
          Snt({"do", "go", "i", "now?", "where"}, {"confusion"}, <<>>, 18)>>,
       <<Snt({"a", "and", "button.", "green", "i", "red", "see"}, {}, <<>>, 31),
          Snt({"is", "one", "proceed?", "which"}, {"confusion"}, <<>>, 21)>>,
       <<Snt({"4-digit", "6-digit.", "a", "asking", "but", "for", "it's", "pin", "said", "you"}, {}, <<>>, 51),
          Snt({"is", "it?", "which"}, {}, <<>>, 12)>> >>

\* state_manager.get_next_tactic
skeptical_tactics ==
    << <<Snt({"a", "bank", "does", "my", "need", "pin?", "upi", "why"}, {"pay_topic", "push_upi"}, <<>>, 32),
          Snt({"ask", "banks", "for", "my", "never", "said", "son", "that."}, {}, <<>>, 37)>>,
       <<Snt({"and", "branch", "can't", "do", "go", "i", "in", "just", "person?", "the", "this", "to", "why"}, {}, <<>>, 56)>>,
       <<Snt({"a", "and", "call", "fraud.", "got", "it", "like", "my", "neighbor", "this", "was"}, {}, <<>>, 50),
          Snt({"do", "how", "i", "know", "real?", "you're"}, {"skeptical"}, <<>>, 26)>>,
       <<Snt({"app?", "bank", "isn't", "official", "on", "the", "this", "why"}, {}, <<>>, 40),
          Snt({"alert", "any", "don't", "i", "see", "there."}, {}, <<>>, 28)>>,
       <<Snt({"a", "are", "bank,", "calling", "from", "if", "is", "mobile", "number?", "really", "the", "this", "why", "you"}, {"number_word"}, <<>>, 69)>>,
       <<Snt({"do", "my", "need", "otp?", "why", "you"}, {"skeptical"}, <<>>, 23),
          Phrase({"'do", "anyone.'", "not", "says", "share", "sms", "the", "with"}, {}, <<>>, 40)>>,
       <<Snt({"account", "balance?", "can", "me", "my", "tell", "you"}, {"account_word"}, <<>>, 35),
          Snt({"bank,", "from", "if", "know.", "should", "the", "you", "you're"}, {}, <<>>, 41)>> >>

\* state_manager.get_next_tactic
slow_compliance_tactics ==
    << <<Snt({"a", "for", "give", "glasses,", "i'm", "looking", "me", "minute.", "my", "reading"}, {"compliance"}, <<>>, 53)>>,
       <<Snt({"are", "but", "fingers", "hold", "i'm", "it", "my", "now", "on.", "please", "slow,", "typing"}, {"compliance"}, <<>>, 58)>>,
       <<Snt({"a", "and", "down.", "find", "first,", "i", "let", "me", "need", "paper", "pen", "this", "to", "write"}, {}, <<>>, 61)>>,
       <<Snt({"blurry.", "everything", "glasses,", "i", "is", "my", "need", "on", "put", "to", "wait,"}, {}, <<>>, 56)>>,
       <<Snt({"another", "better", "i'm", "is", "moving", "room,", "signal", "the", "there.", "to"}, {}, <<>>, 55),
          Snt({"moment.", "one"}, {}, <<>>, 11)>>,
       <<Snt({"and", "app", "is", "loading.", "my", "old", "phone", "slow,", "still", "the"}, {"link_action", "loading_claim"}, <<>>, 51),
          Snt({"please", "wait."}, {}, <<>>, 12)>>,
       <<Snt({"but", "disappearing.", "i'm", "keeps", "keyboard", "the", "trying,"}, {"compliance"}, <<>>, 48),
          Snt({"a", "button.", "give", "hitting", "i", "i'm", "me", "second,", "the", "think", "wrong"}, {}, <<>>, 55)>> >>

\* state_manager.get_varied_ack_prefix (phrases, joined to the reply)
link_prefixes(fact_value) ==
    << <<Phrase({"but", "i", "opening", "tried", fact_value \o ","}, {}, <<>>, 21 + Len(fact_value))>>,
       <<Phrase({"is", "site", "that", fact_value}, {}, <<>>, 13 + Len(fact_value))>>,
       <<Phrase({"about", "sent,", "that", "website", "you"}, {"h_link", "link_word", "push_link"}, <<>>, 28)>>,
       <<Phrase({"and", "i", "to", "went", fact_value}, {}, <<>>, 14 + Len(fact_value))>>,
       <<Phrase({"at", "page", "the", fact_value}, {}, <<>>, 12 + Len(fact_value))>>,
       <<Phrase({"and", "clicked", "i", "link", "so", "your"}, {"h_link", "link", "link_action", "link_word", "push_link"}, <<>>, 26)>> >>

\* state_manager.get_varied_ack_prefix
phone_prefixes(fact_value) ==
    << <<Phrase({"i", "noted", "number", "the", Last4(fact_value) \o ","}, {"data_ref", "number_word"}, <<>>, 24)>>,
       <<Phrase({"about", "ending", "number", "that", Last4(fact_value) \o ","}, {"data_ref", "number_word"}, <<>>, 30)>>,
       <<Phrase({"but", "calling", "i", "tried", Last4(fact_value)}, {"data_ref"}, <<>>, 24)>>,
       <<Phrase({"gave,", "number", "that", "you"}, {"number_word"}, <<>>, 21)>>,
       <<Phrase({"ending", "number", "so", "the", Last4(fact_value) \o ","}, {"data_ref", "number_word"}, <<>>, 26)>> >>

\* state_manager.get_varied_ack_prefix
upi_prefixes(fact_value) ==
    << <<Phrase({"but", "i", "typed", fact_value}, {}, << <<"upi", clean(fact_value)>> >>, 12 + Len(fact_value))>>,
       <<Phrase({"about", "that", "upi", fact_value \o ","}, {"pay_topic", "push_upi"}, << <<"upi", clean(fact_value)>> >>, 16 + Len(fact_value))>>,
       <<Phrase({"and", "entering", "i'm", fact_value}, {"compliance"}, << <<"upi", clean(fact_value)>> >>, 17 + Len(fact_value))>>,
       <<Phrase({"id", "that", fact_value}, {}, << <<"upi", clean(fact_value)>> >>, 8 + Len(fact_value))>>,
       <<Phrase({"is", "showing", "so", fact_value}, {}, << <<"upi", clean(fact_value)>> >>, 14 + Len(fact_value))>>,
       <<Snt({"exactly", "is", "it", "wait,", fact_value \o "?"}, {}, << <<"upi", clean(fact_value)>> >>, 21 + Len(fact_value))>> >>

\* state_manager.get_varied_ack_prefix
account_prefixes(fact_value) ==
    << <<Phrase({"about", "account", Last4(fact_value) \o ","}, {"account_word", "data_ref"}, <<>>, 19)>>,
       <<Phrase({"..." \o Last4(fact_value) \o ",", "down", "i", "wrote"}, {"data_ref"}, <<>>, 21)>>,
       <<Phrase({"account", "ending", "that", Last4(fact_value) \o ","}, {"account_word", "data_ref"}, <<>>, 25)>>,
       <<Phrase({"account", "the", "wait,", fact_value \o ","}, {"account_word", "data_ref"}, << <<"bank_account", clean(fact_value)>> >>, 19 + Len(fact_value))>> >>

\* state_manager.get_fact_validation_question
upi_questions(fact_value) ==
    << <<Snt({"a", "dash?", "dot", "is", "or", "spelled", "with", fact_value}, {}, << <<"upi", clean(fact_value)>> >>, 33 + Len(fact_value)),
          Snt({"correctly.", "i", "it", "to", "type", "want"}, {"confirm_req"}, <<>>, 28)>>,
       <<Snt({"--", "as", "bank", "is", "my", "same", "that", "the", "upi?", "wait,", fact_value}, {"confirm_req", "pay_topic", "push_upi"}, << <<"upi", clean(fact_value)>> >>, 41 + Len(fact_value)),
          Snt({"@ybl", "a", "have", "i", "one."}, {}, <<>>, 18)>>,
       <<Snt({"'user", "app", "but", "found'.", "i'm", "my", "not", "shows", "typing", fact_value}, {"compliance"}, << <<"upi", clean(fact_value)>> >>, 46 + Len(fact_value)),
          Snt({"again", "can", "it", "slowly?", "spell", "you"}, {}, <<>>, 30)>>,
       <<Snt({"--", "do", "for", "i", "is", "money", "or", "receiving?", "send", "so", "this", "to", fact_value}, {}, << <<"upi", clean(fact_value)>> >>, 55 + Len(fact_value)),
          Snt({"confused.", "i'm"}, {}, <<>>, 13)>>,
       <<Snt({"bank's", "id", "id?", "is", "official", "or", "personal", "the", "verification", "your", fact_value}, {}, << <<"upi", clean(fact_value)>> >>, 60 + Len(fact_value))>> >>

\* state_manager.get_fact_validation_question
phone_questions(fact_value) ==
    << <<Snt({"a", "is", "landline", "mobile?", "or", fact_value}, {"data_ref"}, << <<"phone", clean(fact_value)>>, <<"bank_account", clean(fact_value)>> >>, 25 + Len(fact_value)),
          Snt({"busy", "it's", "my", "on", "showing", "side."}, {}, <<>>, 29)>>,
       <<Snt({"'number", "but", "i", "it", "not", "reachable'.", "says", "tried", fact_value}, {"data_ref", "number_word"}, << <<"phone", clean(fact_value)>>, <<"bank_account", clean(fact_value)>> >>, 44 + Len(fact_value)),
          Snt({"an", "extension?", "is", "there"}, {}, <<>>, 22)>>,
       <<Snt({"--", "can", "confirm", "direct", "helpdesk?", "is", "line", "or", "the", "this", "you", "your", fact_value}, {"confirm_req", "data_ref"}, << <<"phone", clean(fact_value)>>, <<"bank_account", clean(fact_value)>> >>, 62 + Len(fact_value))>> >>

\* state_manager.get_fact_validation_question
link_questions ==
    << <<Snt({"a", "certificate", "error.", "is", "link", "showing", "that"}, {"h_error", "h_link", "link", "link_action", "link_word", "push_link"}, <<>>, 41),
          Snt({"http", "https?", "is", "it", "or"}, {}, <<>>, 20)>>,
       <<Snt({"asking", "but", "for", "it's", "loaded", "maiden", "mother's", "my", "name.", "page", "the"}, {}, <<>>, 60),
          Snt({"is", "normal?", "that"}, {}, <<>>, 15)>>,
       <<Snt({"but", "it", "logo", "no", "on", "opened", "page.", "sbi", "the", "there's"}, {"link_action"}, <<>>, 46),
          Snt({"are", "is", "official?", "sure", "this", "you"}, {}, <<>>, 30)>> >>

\* state_manager.get_fact_validation_question
account_questions(fact_value) ==
    << <<Snt({"--", "doesn't", "match", "my", "passbook.", "said", "that", "you", fact_value}, {"data_ref"}, << <<"bank_account", clean(fact_value)>> >>, 43 + Len(fact_value)),
          Snt({"back", "can", "for", "have", "me?", "read", "what", "you"}, {}, <<>>, 39)>>,
       <<Snt({"digits.", "has", "many", "too", "wait,", fact_value}, {"data_ref"}, << <<"bank_account", clean(fact_value)>> >>, 27 + Len(fact_value)),
          Snt({"account", "is", "my", "shorter."}, {"account_word"}, <<>>, 22),
          Snt({"bank", "is", "this?", "which"}, {}, <<>>, 19)>>,
       <<Snt({"'invalid", "account'.", "but", "entered", "i", "it", "says", fact_value}, {"account_word", "data_ref", "error_claim", "h_error"}, << <<"bank_account", clean(fact_value)>> >>, 41 + Len(fact_value)),
          Snt({"4", "can", "confirm", "digits?", "last", "the", "you"}, {"confirm_req"}, <<>>, 34)>> >>

\* state_manager.get_strategic_bait: baits["upi"]
baits_upi ==
    << <<Snt({"'bank-123',", "code?", "i", "is", "otp", "right", "says", "see", "that", "the", "wait,"}, {"confirm_req"}, <<>>, 60)>>,
       <<Snt({"a", "account", "but", "from", "hdfc-secure,", "i", "is", "message", "my", "sbi.", "see"}, {"account_word"}, <<>>, 56),
          Snt({"correct?", "is", "that"}, {"confirm_req"}, <<>>, 16)>>,
       <<Snt({"google", "i", "my", "nephew", "pay", "pay.", "says", "should", "through"}, {"pay_topic", "push_upi"}, <<>>, 47),
          Snt({"a", "can", "do", "have", "i", "id", "upi", "use?", "you"}, {"pay_topic", "push_upi"}, <<>>, 31)>>,
       <<Snt({"can", "do", "i", "just", "the", "through", "upi?", "verification"}, {"pay_topic", "push_upi"}, <<>>, 43),
          Snt({"enter?", "i", "id", "should", "what"}, {}, <<>>, 23)>>,
       <<Snt({"about", "but", "do", "handle", "i", "send", "to", "to?", "transfer,", "upi", "was", "which"}, {"pay_topic", "push_upi"}, <<>>, 59),
          Snt({"app", "asking.", "is", "my"}, {}, <<>>, 17)>>,
       <<Snt({"for", "me.", "my", "phonepe", "set", "son", "up"}, {"push_upi"}, <<>>, 29),
          Snt({"can", "i", "that?", "use"}, {}, <<>>, 15),
          Snt({"do", "enter?", "i", "id", "upi", "what"}, {"pay_topic", "push_upi"}, <<>>, 23)>> >>

\* state_manager.get_strategic_bait: baits["link"]
baits_link ==
    << <<Snt({"an", "can", "i", "link", "me", "official", "send", "so", "verify?", "website", "you"}, {"h_link", "link", "link_word", "push_link"}, <<>>, 57),
          Snt({"alone.", "calls", "don't", "i", "phone", "trust"}, {}, <<>>, 32)>>,
       <<Snt({"always", "check", "first.", "me", "my", "official", "son", "the", "to", "told", "website"}, {"h_link", "link_word", "push_link"}, <<>>, 58),
          Snt({"is", "the", "url?", "what"}, {"push_link"}, <<>>, 16)>>,
       <<Snt({"can", "email", "me", "notice?", "the", "you"}, {"push_link"}, <<>>, 28),
          Snt({"i", "in", "need", "something", "writing."}, {}, <<>>, 28)>>,
       <<Snt({"a", "and", "can", "check", "i", "into", "is", "log", "myself?", "portal", "there"}, {}, <<>>, 50)>> >>

\* state_manager.get_strategic_bait: baits["phone"]
baits_phone ==
    << <<Snt({"a", "callback", "can", "give", "me", "number?", "you"}, {"number_word"}, <<>>, 34),
          Snt({"call", "from", "i", "landline.", "my", "to", "want"}, {}, <<>>, 32)>>,
       <<Snt({"department?", "direct", "for", "is", "number", "the", "what", "your"}, {"number_word"}, <<>>, 46),
          Snt({"down.", "i", "it", "need", "note", "to"}, {}, <<>>, 23)>>,
       <<Snt({"and", "back", "call", "my", "son", "to", "verify.", "wants", "you"}, {}, <<>>, 41),
          Snt({"dial?", "he", "number", "should", "what"}, {"number_word"}, <<>>, 27)>> >>

\* state_manager.get_strategic_bait: baits["bank_account"]
baits_bank_account ==
    << <<Snt({"account", "any", "i", "if", "make", "need", "payment,", "should", "to", "to?", "transfer", "which"}, {"account_word"}, <<>>, 66)>>,
       <<Snt({"account", "can", "confirm", "number?", "the", "you"}, {"account_word", "confirm_req", "number_word", "push_acct"}, <<>>, 35),
          Snt({"cross-check", "i", "my", "passbook.", "to", "want", "with"}, {}, <<>>, 39)>>,
       <<Snt({"bank", "branch", "go", "i'll", "the", "to", "tomorrow."}, {}, <<>>, 36),
          Snt({"account", "i", "mention?", "number", "should", "what"}, {"account_word", "number_word", "push_acct"}, <<>>, 37)>> >>

\* state_manager.mirror_and_verify
upi_mirrors(fact_value) ==
    << <<Snt({"id", "is", "right?", "said", "the", "you", fact_value \o ","}, {"confirm_req"}, << <<"upi", clean(fact_value)>> >>, 27 + Len(fact_value)),
          Snt({"a", "but", "different", "i", "in,", "it", "it's", "name.", "showing", "typed"}, {}, <<>>, 49),
          Snt({"correct?", "is", "that"}, {"confirm_req"}, <<>>, 16)>>,
       <<Snt({"did", "else?", "is", "it", "or", "say", "something", "wait,", "you", fact_value}, {}, << <<"upi", clean(fact_value)>> >>, 43 + Len(fact_value)),
          Snt({"autocorrected", "it.", "my", "phone"}, {"confirm_req"}, <<>>, 26)>>,
       <<Snt({"'rahul", "but", "correct", "entered", "enterprises.'", "i", "is", "it's", "name", "name?", "official", "showing", "that", "the", fact_value}, {"confirm_req"}, << <<"upi", clean(fact_value)>> >>, 92 + Len(fact_value))>>,
       <<Snt({"'@'", "--", "hold", "is", "on,", "part", "right?", "the", fact_value}, {"confirm_req"}, << <<"upi", clean(fact_value)>> >>, 34 + Len(fact_value)),
          Snt({"a", "adding", "dot", "instead.", "keeps", "keyboard", "my"}, {}, <<>>, 39)>>,
       <<Snt({"so", fact_value \o "..."}, {}, << <<"upi", clean(fact_value)>> >>, 6 + Len(fact_value)),
          Snt({"'beneficiary", "but", "can", "found.'", "i", "it", "more", "not", "one", "says", "spell", "time?", "typed", "you"}, {}, <<>>, 79)>> >>

\* state_manager.mirror_and_verify
phone_mirrors(fact_value) ==
    << <<Snt({"is", "number", "right?", "said", "the", "you", fact_value \o ","}, {"confirm_req", "data_ref", "number_word"}, << <<"phone", clean(fact_value)>>, <<"bank_account", clean(fact_value)>> >>, 31 + Len(fact_value)),
          Snt({"'not", "a", "getting", "i'm", "message.", "reachable'"}, {}, <<>>, 38)>>,
       <<Snt({"wait,", fact_value \o "..."}, {"data_ref"}, << <<"phone", clean(fact_value)>>, <<"bank_account", clean(fact_value)>> >>, 9 + Len(fact_value)),
          Snt({"+91", "is", "or", "that", "with", "without?"}, {"data_ref"}, <<>>, 28),
          Snt({"but", "dialing", "it's", "nobody", "picks", "up."}, {}, <<>>, 33)>>,
       <<Snt({"'private", "a", "as", "but", "caller", "down", "i", "id", "is", "it", "my", "normal?", "number.'", "shows", "that", "wrote", fact_value}, {"data_ref", "number_word"}, << <<"phone", clean(fact_value)>>, <<"bank_account", clean(fact_value)>> >>, 78 + Len(fact_value))>>,
       <<Snt({"confirm,", "let", "me", fact_value \o "..."}, {"data_ref"}, << <<"phone", clean(fact_value)>>, <<"bank_account", clean(fact_value)>> >>, 19 + Len(fact_value)),
          Snt({"4", "are", "digits", "last", "right?", "the", Last4(fact_value) \o ","}, {"confirm_req", "data_ref"}, <<>>, 34),
          Snt({"i", "make", "sure.", "to", "want"}, {}, <<>>, 20)>> >>

\* state_manager.mirror_and_verify
link_mirrors(fact_value) ==
    << <<Snt({"open", "right?", "said", "to", "you", fact_value \o ","}, {"confirm_req", "link_action"}, << <<"link", "http://securesbilogin.com/verify,">> >>, 25 + Len(fact_value)),
          Snt({"but", "icon", "is", "it's", "loading", "missing.", "padlock", "the"}, {"fear_lock", "link_action", "loading_claim"}, <<>>, 45),
          Snt({"is", "it", "safe?"}, {}, <<>>, 11)>>,
       <<Snt({"--", ".com", ".in", "at", "end?", "is", "it", "or", "the", "wait,", fact_value}, {}, << <<"link", clean(fact_value)>> >>, 38 + Len(fact_value)),
          Snt({"a", "browser", "is", "my", "showing", "warning."}, {}, <<>>, 32)>>,
       <<Snt({"bank", "but", "doesn't", "have", "i", "it", "logo", "on", "the", "to", "top.", "went", fact_value}, {}, << <<"link", clean(fact_value)>> >>, 52 + Len(fact_value)),
          Snt({"are", "correct?", "is", "sure", "this", "you"}, {"confirm_req"}, <<>>, 29)>>,
       <<Snt({"so", fact_value \o "..."}, {}, << <<"link", "http://securesbilogin.com/verify...">> >>, 6 + Len(fact_value)),
          Snt({"address", "bar", "but", "different.", "in", "it", "looks", "name", "opened", "the"}, {"link_action"}, <<>>, 58),
          Snt({"is", "official", "site?", "the", "this"}, {}, <<>>, 26)>> >>

\* state_manager.mirror_and_verify
account_mirrors(fact_value) ==
    << <<Snt({"right?", "said", "you", fact_value \o ","}, {"confirm_req", "data_ref"}, << <<"bank_account", clean(fact_value)>> >>, 17 + Len(fact_value)),
          Snt({"a", "back", "confirm.", "it", "let", "long", "me", "number,", "read", "that's", "to", "you"}, {"number_word"}, <<>>, 60)>>,
       <<Snt({"wait,", fact_value \o "..."}, {"data_ref"}, << <<"bank_account", clean(fact_value)>> >>, 9 + Len(fact_value)),
          Snt({"be", "but", "digit", "i", "it", "might", "on", "one", "paper", "wrong.", "wrote"}, {}, <<>>, 49),
          Snt({"can", "repeat", "slowly?", "you"}, {"confirm_req"}, <<>>, 22)>>,
       <<Snt({"account", "but", "doesn't", "have", "i", "match", "my", "number", "on", "passbook.", "that", "the", fact_value}, {"account_word", "data_ref", "number_word", "push_acct"}, << <<"bank_account", clean(fact_value)>> >>, 65 + Len(fact_value)),
          Snt({"is", "mine?", "or", "this", "yours"}, {}, <<>>, 22)>> >>

\* the markers that a value brings into the sentence that quotes it: the
\* feature data_ref (four digits in a row, or +91) and the words looked for in
\* replies
ValueMarkers(fact_value) ==
    (IF \/ \E i \in 1..(Len(fact_value) - 3) :
                \A j \in 0..3 : SubSeq(fact_value, i + j, i + j) \in DigitChars
        \/ Contains(fact_value, "+91")
     THEN {"data_ref"} ELSE {})
    \cup (IF Contains(fact_value, "number") THEN {"number_word"} ELSE {})
    \cup (IF Contains(fact_value, "case") \/ Contains(fact_value, "reference")
          THEN {"case_word"} ELSE {})

\* state_manager.mirror_and_verify: a kind without a mirror pool
default_mirror(fact_value) ==
    <<Snt({"right?", "said", "you", fact_value \o ","}, {"confirm_req"} \cup ValueMarkers(fact_value), <<>>, 17 + Len(fact_value)),
          Snt({"can", "confirm", "more?", "once", "that", "you"}, {"confirm_req"}, <<>>, 31)>>

\* state_manager.get_varied_ack_prefix: a kind without a prefix pool
default_prefixes(fact_value) ==
    << <<Phrase({"about", fact_value \o ","}, ValueMarkers(fact_value), <<>>, 7 + Len(fact_value))>> >>

-----------------------------------------------------------------------------
(* The string pools and fixed replies of groq_handler.py *)

\* groq_handler._fallback_non_payment_reply: links, link_mode = "loading"
link_loading_candidates ==
    << <<Snt({"isn't", "it", "just", "keeps", "link", "loading.", "my", "on", "opening", "phone,", "still", "that"}, {"h_link", "link", "link_action", "link_word", "loading_claim", "push_link"}, <<>>, 65),
          Snt({"bank", "domain", "official", "the", "this?", "to", "verify", "website", "what's"}, {"h_link", "link_word", "push_link", "skeptical"}, <<>>, 55)>>,
       <<Snt({"and", "it's", "loading", "on", "open.", "stuck", "won't"}, {"link_action", "loading_claim"}, <<>>, 37),
          Snt({"a", "and", "can", "number?", "official", "reference/case", "send", "the", "website", "you"}, {"case_ask", "case_word", "h_link", "link_word", "number_word", "push_link"}, << <<"case_number", "erence/case">> >>, 62)>> >>

\* groq_handler._fallback_non_payment_reply: links, link_mode = "error"
link_error_candidates ==
    << <<Snt({"an", "but", "clicked", "error", "i", "it", "keeps", "link", "page.", "showing", "the"}, {"error_claim", "h_error", "h_link", "link", "link_action", "link_word", "push_link"}, <<>>, 54),
          Snt({"a", "and", "can", "number?", "official", "reference/case", "send", "the", "website", "you"}, {"case_ask", "case_word", "h_link", "link_word", "number_word", "push_link"}, << <<"case_number", "erence/case">> >>, 62)>>,
       <<Snt({"an", "error/invalid", "it's", "page.", "showing"}, {"error_claim", "h_error", "link_action"}, <<>>, 35),
          Snt({"bank", "domain", "official", "the", "this?", "to", "verify", "website", "what's"}, {"h_link", "link_word", "push_link", "skeptical"}, <<>>, 55)>> >>

\* groq_handler._fallback_non_payment_reply: links, no link mode
link_candidates ==
    << <<Snt({"isn't", "it", "just", "keeps", "link", "loading.", "my", "on", "opening", "phone,", "that"}, {"h_link", "link", "link_action", "link_word", "loading_claim", "push_link"}, <<>>, 59),
          Snt({"bank", "domain", "official", "the", "this?", "to", "verify", "website", "what's"}, {"h_link", "link_word", "push_link", "skeptical"}, <<>>, 55)>>,
       <<Snt({"an", "but", "clicked", "error", "i", "it", "link", "page.", "shows", "the"}, {"error_claim", "h_error", "h_link", "link", "link_action", "link_word", "push_link"}, <<>>, 46),
          Snt({"a", "and", "can", "number?", "official", "reference/case", "send", "the", "website", "you"}, {"case_ask", "case_word", "h_link", "link_word", "number_word", "push_link"}, << <<"case_number", "erence/case">> >>, 62)>>,
       <<Snt({"asking", "but", "came", "for", "is", "nothing", "otp", "site", "the", "yet."}, {}, <<>>, 48),
          Snt({"bank", "care", "customer", "from", "number", "official", "the", "website?", "what's"}, {"h_link", "link_word", "number_word", "push_link"}, <<>>, 63)>> >>

\* groq_handler._fallback_non_payment_reply: phone_numbers
phone_candidates ==
    << <<Snt({"busy.", "but", "calling", "gave", "i'm", "it's", "number", "the", "you"}, {"compliance", "number_word"}, <<>>, 46),
          Snt({"another", "can", "extension", "i", "is", "landline", "number", "or", "there", "try?"}, {"number_word"}, <<>>, 56)>>,
       <<Snt({"but", "calling", "i", "it", "off.", "says", "switched", "tried"}, {}, <<>>, 41),
          Snt({"and", "are", "branch/department", "from", "number?", "office", "what's", "which", "you", "your"}, {"number_word"}, <<>>, 67)>>,
       <<Snt({"call", "from", "going", "isn't", "my", "side.", "through"}, {}, <<>>, 38),
          Snt({"and", "can", "care", "customer", "me", "message", "name/designation?", "number", "official", "the", "you", "your"}, {"number_word"}, <<>>, 79)>> >>

\* groq_handler._fallback_non_payment_reply: bank_accounts (acct_partial = acct[-4:])
account_candidates(acct) ==
    << <<Snt({"account", "but", "doesn't", "ending", "match", "mentioned", "mine.", "that", "the", "you", Last4(acct) \o ","}, {"account_word", "data_ref"}, <<>>, 67),
          Snt({"4", "can", "confirm", "digits", "for", "have", "last", "me?", "on", "record", "the", "you"}, {"confirm_req"}, <<>>, 60)>>,
       <<Snt({"account", "down.", "ending", "i'm", "it", "number", "repeat", "slowly,", "the", "wait,", "writing", Last4(acct)}, {"account_word", "confirm_req", "data_ref", "number_word", "push_acct"}, <<>>, 72),
          Snt({"bank/branch", "is", "linked", "this", "to?", "which"}, {"h_link"}, <<>>, 36)>>,
       <<Snt({"and", "ending", "entered", "i", "invalid.", "it", "number", "says", "the", Last4(acct)}, {"data_ref", "error_claim", "h_error", "number_word"}, <<>>, 53),
          Snt({"and", "bank", "can", "employee", "i", "id", "me", "name", "so", "tell", "the", "verify?", "you", "your"}, {}, <<>>, 67)>> >>

\* groq_handler._fallback_non_payment_reply: upi_ids
upi_candidates(upi) ==
    << <<Snt({"'user", "app", "but", "found'.", "i'm", "into", "it", "my", "not", "says", "typing", upi}, {"compliance"}, << <<"upi", clean(upi)>> >>, 53 + Len(upi)),
          Snt({"can", "exact", "handle?", "repeat", "the", "upi", "you"}, {"confirm_req", "pay_topic", "push_upi"}, <<>>, 36)>>,
       <<Snt({"--", "account", "block/otp,", "confused", "earlier", "i'm", "now", "said", "upi.", "you"}, {"account_word", "fear_lock", "pay_topic", "push_upi"}, <<>>, 59),
          Snt({"does", "exactly?", "mean", "upi", "verification", "what"}, {"pay_topic", "push_upi"}, <<>>, 40)>> >>

\* groq_handler._fallback_non_payment_reply: no fact
generic_candidates ==
    << <<Snt({"but", "coming.", "i'm", "is", "no", "otp", "really", "scared"}, {"panic"}, <<>>, 39),
          Snt({"and", "can", "exact", "it", "me", "name", "resend", "sender", "show?", "sms", "tell", "what", "will", "you"}, {}, <<>>, 67)>>,
       <<Snt({"again", "but", "coming.", "i'm", "is", "nothing", "trying"}, {"compliance"}, <<>>, 39),
          Snt({"are", "correct", "have", "my", "number", "on", "registered", "screen?", "sure", "you", "your"}, {"confirm_req", "number_word"}, <<>>, 66)>>,
       <<Snt({"is", "me", "out.", "stressing", "this"}, {}, <<>>, 25),
          Snt({"block?", "can", "give", "helpline", "i", "me", "number", "official", "so", "the", "this", "verify", "you"}, {"fear_lock", "number_word", "skeptical"}, <<>>, 72)>>,
       <<Snt({"a", "but", "button", "greyed", "i", "it's", "out.", "see", "wait,"}, {}, <<>>, 41),
          Snt({"do", "i", "now?", "what"}, {}, <<>>, 17),
          Snt({"click", "field", "first?", "i", "should", "which"}, {"confusion", "link_action"}, <<>>, 33)>>,
       <<Snt({"'ifsc", "'micr", "and", "asking", "code'", "code.'", "do", "for", "from", "is", "me?", "need", "one", "page", "the", "which", "you"}, {"confusion"}, <<>>, 82)>>,
       <<Snt({"10", "a", "banks.", "dropdown", "showing", "there's"}, {"confusion"}, <<>>, 36),
          Snt({"do", "i", "one", "select?", "which"}, {"confusion"}, <<>>, 22),
          Snt({"doesn't", "have", "it", "mentioned.", "one", "the", "you"}, {}, <<>>, 38)>> >>

\* groq_handler._fallback_non_payment_reply
strategic_baits ==
    << <<Snt({"can", "do", "i", "instead?", "just", "this", "through", "upi", "verification"}, {"pay_topic", "push_upi"}, <<>>, 52),
          Snt({"i", "id", "should", "upi", "use?", "what"}, {"pay_topic", "push_upi"}, <<>>, 25)>>,
       <<Snt({"for", "me.", "my", "phonepe", "set", "son", "up"}, {"push_upi"}, <<>>, 29),
          Snt({"do", "enter?", "i", "id", "if", "need", "pay,", "to", "upi", "what"}, {"pay_topic", "push_upi"}, <<>>, 41)>>,
       <<Snt({"a", "can", "email", "i", "link", "me", "official", "on", "or", "send", "so", "the", "this", "verify", "website?", "you"}, {"h_link", "link", "link_word", "push_link", "skeptical"}, <<>>, 77)>>,
       <<Snt({"all", "business.", "don't", "i", "otp", "this", "understand"}, {}, <<>>, 41),
          Snt({"amount", "can", "google", "i", "just", "pay?", "the", "through", "transfer"}, {"pay_topic", "push_upi"}, <<>>, 50),
          Snt({"is", "upi?", "what", "your"}, {"pay_topic", "push_upi"}, <<>>, 17)>>,
       <<Snt({"bank", "daughter", "do", "i", "my", "official", "on", "only", "says", "should", "the", "this", "website."}, {"h_link", "link_word", "push_link"}, <<>>, 68),
          Snt({"can", "share", "the", "url?", "you"}, {"push_link"}, <<>>, 22)>>,
       <<Snt({"'bank-ref-4829'.", "i", "my", "on", "saw", "says", "screen", "something", "that", "wait,"}, {"data_ref"}, << <<"case_number", "4829">> >>, 61),
          Snt({"is", "number?", "reference", "that", "the"}, {"case_ask", "case_word", "number_word"}, << <<"case_number", "erence">> >>, 29)>> >>

\* groq_handler._apply_post_guardrails, step 1b
no_link_reply ==
    <<Snt({"and", "coming.", "getting", "i'm", "isn't", "otp", "really", "still", "the", "worried"}, {}, <<>>, 58),
          Snt({"and", "bank", "care", "customer", "domain", "number", "official", "the", "this?", "to", "verify", "website", "what's"}, {"h_link", "link_word", "number_word", "push_link", "skeptical"}, <<>>, 80)>>

\* groq_handler._apply_post_guardrails, step 1c, link_mode = "loading"
still_loading_reply ==
    <<Snt({"just", "keeps", "link", "loading", "my", "on", "phone.", "still", "that"}, {"h_link", "link", "link_action", "link_word", "loading_claim", "push_link"}, <<>>, 47),
          Snt({"bank", "can", "domain", "give", "me", "official", "the", "this?", "to", "verify", "website", "you"}, {"h_link", "link_word", "push_link", "skeptical"}, <<>>, 64)>>

\* groq_handler._apply_post_guardrails, step 1c, link_mode = "error"
error_page_reply ==
    <<Snt({"an", "error", "keeps", "link", "page.", "showing", "the"}, {"error_claim", "h_error", "h_link", "link", "link_action", "link_word", "push_link"}, <<>>, 37),
          Snt({"a", "and", "bank", "can", "number?", "official", "reference/case", "send", "the", "website", "you"}, {"case_ask", "case_word", "h_link", "link_word", "number_word", "push_link"}, << <<"case_number", "erence/case">> >>, 67)>>

\* groq_handler._apply_post_guardrails, step 1d
case_persist_reply ==
    <<Snt({"case/reference", "i", "need", "number", "proceed.", "still", "the", "to"}, {"case_ask", "case_word", "number_word"}, << <<"case_number", "/reference">> >>, 50),
          Snt({"can", "first", "i", "please", "share", "so", "that", "verify."}, {}, <<>>, 40)>>

\* groq_handler._clean_response: the reply for an empty response
empty_reply_text ==
    <<Snt({"again?", "can", "explain", "you"}, {}, <<>>, 22),
          Snt({"account", "blocked.", "get", "getting", "i'm", "my", "really", "scared", "will"}, {"account_word", "fear_lock"}, <<>>, 54)>>

\* groq_handler._clean_response: the reply replacing a forbidden or emptied response
sanitized_reply ==
    <<Snt({"but", "don't", "i", "i'm", "really", "understand,", "worried."}, {"panic"}, <<>>, 43),
          Snt({"can", "care", "customer", "me", "number", "official", "tell", "the", "to", "verify?", "you"}, {"number_word"}, <<>>, 60)>>

\* groq_handler._ack_prefix: no fact
okay_prefix ==
    <<Phrase({"okay,"}, {}, <<>>, 5)>>

\* agent._handle_generic_scam: every kind of intel is known
next_steps_question ==
    <<Snt({"are", "next", "steps?", "the", "what"}, {}, <<>>, 24)>>

\* agent._handle_link_scam: every kind of intel is known
step_by_step_question ==
    <<Snt({"by", "can", "guide", "me", "step", "step?", "you"}, {}, <<>>, 30)>>

-----------------------------------------------------------------------------
(* The tables of the rule-based handlers of agent.py *)

\* agent._handle_phishing_scam: questions while no phone number is known
phishing_phone_questions ==
    << <<Snt({"back?", "call", "can", "direct", "i", "is", "number", "phone", "so", "what", "you", "your"}, {"number_word"}, <<>>, 56)>>,
       <<Snt({"a", "callback", "can", "give", "me", "number", "to", "verify?", "you"}, {"number_word"}, <<>>, 44)>> >>

\* agent._handle_phishing_scam: questions while no UPI id is known
phishing_upi_questions ==
    << <<Snt({"for", "id", "is", "payment?", "the", "upi", "what", "your"}, {"pay_topic", "push_upi"}, <<>>, 36)>>,
       <<Snt({"amount", "i", "id", "send", "should", "the", "to?", "upi", "verification", "which"}, {"pay_topic", "push_upi"}, <<>>, 54)>> >>

\* agent._handle_phishing_scam: questions while no bank account is known
phishing_bank_questions ==
    << <<Snt({"account", "are", "is", "number", "referring", "the", "to?", "what", "you"}, {"account_word", "number_word", "push_acct"}, << <<"case_number", "erring">> >>, 48)>>,
       <<Snt({"account", "bank", "can", "confirm", "number?", "the", "you"}, {"account_word", "confirm_req", "number_word", "push_acct"}, <<>>, 40)>> >>

\* agent._handle_phishing_scam: questions while no link is known
phishing_link_questions ==
    << <<Snt({"email", "for", "id", "is", "official", "verification?", "what", "your"}, {"push_link"}, <<>>, 48)>>,
       <<Snt({"can", "details", "email?", "me", "send", "the", "via", "you"}, {"push_link"}, <<>>, 38),
          Snt({"email?", "is", "what", "your"}, {"push_link"}, <<>>, 19)>> >>

\* agent._handle_link_scam: questions while no phone number is known
link_phone_questions ==
    << <<Snt({"can", "me", "over", "phone?", "tell", "you"}, {}, <<>>, 27),
          Snt({"is", "number?", "what", "your"}, {"number_word"}, <<>>, 20)>>,
       <<Snt({"browser", "is", "my", "not", "working."}, {}, <<>>, 26),
          Snt({"call", "can", "me?", "you"}, {}, <<>>, 16)>> >>

\* agent._handle_link_scam: questions while no UPI id is known
link_upi_questions ==
    << <<Snt({"id", "in", "is", "link?", "mentioned", "the", "upi", "what"}, {"h_link", "link", "link_word", "pay_topic", "push_link", "push_upi"}, <<>>, 41)>>,
       <<Snt({"i", "if", "need", "pay,", "should", "to", "upi", "use?", "what"}, {"pay_topic", "push_upi"}, <<>>, 40)>> >>

\* agent._handle_link_scam: questions while no bank account is known
link_bank_questions ==
    << <<Snt({"account", "enter?", "i", "number", "should", "what"}, {"account_word", "number_word", "push_acct"}, <<>>, 35)>>,
       <<Snt({"bank", "can", "details?", "me", "tell", "the", "you"}, {}, <<>>, 33)>> >>

\* agent._handle_link_scam: questions while no link is known
link_link_questions ==
    << <<Snt({"can", "email", "instead?", "link", "me", "the", "you"}, {"h_link", "link", "link_word", "push_link"}, <<>>, 34)>>,
       <<Snt({"email", "id?", "is", "what", "your"}, {"push_link"}, <<>>, 22)>> >>

\* agent._handle_generic_scam: questions while no phone number is known
generic_phone_questions ==
    << <<Snt({"best", "is", "number", "reach", "the", "to", "what", "you?"}, {"number_word"}, <<>>, 37)>>,
       <<Snt({"can", "give", "me", "number?", "phone", "you", "your"}, {"number_word"}, <<>>, 34)>> >>

\* agent._handle_generic_scam: questions while no UPI id is known
generic_upi_questions ==
    << <<Snt({"id?", "is", "upi", "what", "your"}, {"pay_topic", "push_upi"}, <<>>, 20)>>,
       <<Snt({"i", "if", "need", "pay,", "to", "upi?", "what"}, {"pay_topic", "push_upi"}, <<>>, 27)>> >>

\* agent._handle_generic_scam: questions while no bank account is known
generic_bank_questions ==
    << <<Snt({"account", "bank", "is", "number?", "what", "your"}, {"account_word", "number_word", "push_acct"}, <<>>, 33)>>,
       <<Snt({"account", "can", "details?", "give", "you"}, {"account_word"}, <<>>, 29)>> >>

\* agent._handle_generic_scam: questions while no link is known
generic_link_questions ==
    << <<Snt({"address?", "email", "is", "what", "your"}, {"push_link"}, <<>>, 27)>>,
       <<Snt({"can", "details?", "email", "me", "the", "you"}, {"push_link"}, <<>>, 29)>> >>

\* agent._handle_phishing_scam
otp_deflections ==
    << <<Snt({"any", "didn't", "i", "my", "on", "otp", "phone.", "receive"}, {}, <<>>, 37)>>,
       <<Snt({"came", "my", "no", "otp", "phone", "to", "yet."}, {}, <<>>, 28)>>,
       <<Snt({"but", "checking", "i'm", "message.", "no", "otp", "there's"}, {"compliance"}, <<>>, 40)>>,
       <<Snt({"my", "new", "no", "otp.", "phone", "shows"}, {}, <<>>, 26)>>,
       <<Snt({"any", "code", "haven't", "i", "received", "yet."}, {}, <<>>, 32)>> >>

\* agent._handle_phishing_scam
engaging_responses ==
    << <<Snt({"for", "i'm", "otp.", "still", "the", "waiting"}, {}, <<>>, 30),
          Snt({"again?", "can", "explain", "process", "the", "you"}, {}, <<>>, 34)>>,
       <<Snt({"again.", "check", "let", "me", "messages", "my"}, {}, <<>>, 31),
          Snt({"after", "do", "get", "i", "otp?", "should", "the", "what"}, {}, <<>>, 37)>>,
       <<Snt({"is", "my", "phone", "slow."}, {}, <<>>, 17),
          Snt({"about", "can", "is", "me", "more", "needed?", "tell", "this", "why", "you"}, {}, <<>>, 46)>> >>

\* agent._handle_link_scam
tech_excuses ==
    << <<Snt({"is", "link", "my", "not", "on", "opening", "phone.", "the"}, {"ex_not_opening", "h_link", "link", "link_action", "link_word", "loading_claim", "push_link"}, <<>>, 36)>>,
       <<Snt({"internet", "is", "my", "slow.", "very"}, {}, <<>>, 25)>>,
       <<Snt({"an", "error.", "page", "shows", "the"}, {"h_error", "link_action"}, <<>>, 24)>>,
       <<Snt({"blocking", "browser", "is", "my", "this."}, {}, <<>>, 28)>>,
       <<Snt({"but", "clicked", "happened.", "i", "nothing"}, {"link_action"}, <<>>, 31)>> >>

\* agent._handle_generic_scam
generic_responses ==
    << <<Snt({"can", "explain", "i", "more?", "see,", "you"}, {}, <<>>, 28)>>,
       <<Snt({"i'm", "interested,", "me", "more.", "tell"}, {}, <<>>, 29)>>,
       <<Snt({"do", "do?", "i", "need", "to", "what"}, {}, <<>>, 21)>>,
       <<Snt({"important.", "sounds", "this"}, {}, <<>>, 22)>>,
       <<Snt({"better.", "i", "to", "understand", "want"}, {}, <<>>, 28)>> >>

-----------------------------------------------------------------------------
(* Randomness.  Every random.choice(xs) of one call takes the element of xs *)
(* at the position given by a draw rnd, an input of the call taken from a   *)
(* bounded set; xs keeps the order of the list in the code.                 *)

random_choice(xs, rnd) == xs[(rnd % Len(xs)) + 1]

Without(xs, drop) == SelectSeq(xs, LAMBDA x : x \notin drop)

Range(xs) == {xs[i] : i \in DOMAIN xs}

\* the element of a set of one element: Only({e(x) : x \in {v}}) is e(v), with
\* v evaluated once
Only(S) == CHOOSE x \in S : TRUE

\* random.choice of the candidates that are not in used, or of all the
\* candidates when none is left
ChooseNotIn(candidates, used, rnd) ==
    LET unused == Without(candidates, used)
    IN  random_choice(IF unused = <<>> THEN candidates ELSE unused, rnd)

-----------------------------------------------------------------------------
(* DynamicStateManager *)

\* state_manager.DynamicStateManager.__init__ (the fields the reply path uses)
DynamicStateManager ==
    [ extracted_facts            |-> <<>>,   \* value -> <<kind, turn>>
      received_fact_types        |-> {},
      recent_responses           |-> <<>>,
      response_patterns          |-> {},
      active_topics              |-> {},
      previous_topics            |-> {},
      detected_contradictions    |-> <<>>,
      used_ack_phrases           |-> <<>>,
      validated_facts            |-> {},
      data_echo_counts           |-> <<>>,   \* items <<value, count>>
      used_fallback_responses    |-> {},
      used_process_confusions    |-> {},
      mirrored_data_points       |-> {},
      used_tactics               |-> <<>>,
      last_tactic_category       |-> "None",
      recent_skeletons           |-> <<>>,
      consecutive_monotone_count |-> 0,
      current_emotion            |-> "high_anxiety",
      emotion_history            |-> << <<0, "high_anxiety">> >>,
      turn_count                 |-> 0 ]

max_recent_responses == 6

max_data_echo == 1

max_recent_skeletons == 4

\* record_response_skeleton with a counter that is never reset
record_response_skeleton_no_reset(mgr, response) ==
    LET skeleton == extract_response_skeleton(response)
        appended == Append(mgr.recent_skeletons, skeleton)
        kept == IF Len(appended) > max_recent_skeletons THEN Tail(appended) ELSE appended
    IN  [mgr EXCEPT
            !.recent_skeletons = kept,
            !.consecutive_monotone_count = IF Len(kept) >= 2 THEN @ + 1 ELSE @]

\* state_manager.record_response_skeleton
record_response_skeleton(mgr, response) ==
    LET skeleton == extract_response_skeleton(response)
        appended == Append(mgr.recent_skeletons, skeleton)
        kept == IF Len(appended) > max_recent_skeletons THEN Tail(appended) ELSE appended
        last == kept[Len(kept)]
        prev == kept[Len(kept) - 1]
        monotone == /\ last # {}
                    /\ prev # {}
                    /\ OverlapAtLeast(last, prev, 7, 10)
    IN  [mgr EXCEPT
            !.recent_skeletons = kept,
            !.consecutive_monotone_count =
                IF Len(kept) >= 2
                THEN (IF monotone THEN @ + 1 ELSE 0)
                ELSE @]

\* get_process_confusion_stall without the filter of the used stalls
get_process_confusion_stall_unfiltered(mgr, rnd) ==
    Only({ [mgr |-> [mgr EXCEPT !.used_process_confusions = @ \cup {chosen}],
            out |-> chosen] :
           chosen \in {random_choice(all_stalls, rnd)} })

\* state_manager.get_process_confusion_stall: [mgr, out]
get_process_confusion_stall(mgr, rnd) ==
    Only({ [mgr |-> [mgr EXCEPT !.used_process_confusions =
                        (IF Range(all_stalls) \subseteq @ THEN {} ELSE @) \cup {chosen}],
            out |-> chosen] :
           chosen \in {ChooseNotIn(all_stalls, mgr.used_process_confusions, rnd)} })

\* state_manager.record_tactic
record_tactic(mgr, category, text) ==
    [mgr EXCEPT !.used_tactics = Append(@, [category |-> category, text |-> text]),
                !.last_tactic_category = category]

\* state_manager.was_tactic_text_used
was_tactic_text_used(mgr, text) ==
    \E i \in DOMAIN mgr.used_tactics : mgr.used_tactics[i].text = text

all_categories == <<"confusion", "skeptical", "slow_compliance">>

\* state_manager.get_next_tactic_category
get_next_tactic_category(mgr, rnd) ==
    IF mgr.last_tactic_category = "None"
    THEN random_choice(all_categories, rnd)
    ELSE random_choice(Without(all_categories, {mgr.last_tactic_category}), rnd)

tactic_map(category) ==
    CASE category = "confusion" -> confusion_tactics
      [] category = "skeptical" -> skeptical_tactics
      [] category = "slow_compliance" -> slow_compliance_tactics
      [] OTHER -> confusion_tactics

\* the texts of used_tactics as if only the last Tactic Record were kept
UsedTacticTexts_last_only(mgr) ==
    {mgr.used_tactics[i].text : i \in (DOMAIN mgr.used_tactics) \cap {Len(mgr.used_tactics)}}

\* the texts of the Tactic Records of used_tactics
UsedTacticTexts(mgr) == {mgr.used_tactics[i].text : i \in DOMAIN mgr.used_tactics}

\* state_manager.get_next_tactic with the draw of the category and the draw
\* of the text: [mgr, out]
get_next_tactic_drawn(mgr, rnd_category, rnd_text) ==
    Only({ Only({ [mgr |-> record_tactic(mgr, category, chosen),
                   out |-> [category |-> category, text |-> chosen]] :
                  chosen \in {ChooseNotIn(tactic_map(category), UsedTacticTexts(mgr),
                                          rnd_text)} }) :
           category \in {get_next_tactic_category(mgr, rnd_category)} })

\* state_manager.get_next_tactic: [mgr, out]
get_next_tactic(mgr, rnd) == get_next_tactic_drawn(mgr, rnd, rnd)

\* the features of the last two stored skeletons
RecentFeatures(mgr) ==
    LET k == Len(mgr.recent_skeletons)
    IN  UNION {mgr.recent_skeletons[i] : i \in (DOMAIN mgr.recent_skeletons) \cap {k - 1, k}}

\* the candidates of get_diversity_replacement: [mgr, out], out the list
DiversityCandidates(mgr, recent_features, rnd) ==
    LET typed ==
            (IF "skeptical" \notin recent_features THEN diversity_skeptical ELSE <<>>)
            \o (IF "compliance" \notin recent_features /\ "what_if" \notin recent_features
                THEN diversity_compliance ELSE <<>>)
    IN  IF "confusion" \notin recent_features \/ typed = <<>>
        THEN Only({ [mgr |-> stall.mgr, out |-> <<stall.out>> \o typed] :
                    stall \in {get_process_confusion_stall(mgr, rnd)} })
        ELSE [mgr |-> mgr, out |-> typed]

\* state_manager.get_diversity_replacement: [mgr, out]; out is <<>> for None
get_diversity_replacement(mgr, rnd) ==
    IF mgr.recent_skeletons = <<>>
    THEN [mgr |-> mgr, out |-> <<>>]
    ELSE Only({ Only({ [mgr |-> record_tactic(c.mgr, "diversity_break", chosen),
                        out |-> chosen] :
                       chosen \in {ChooseNotIn(c.out, UsedTacticTexts(c.mgr), rnd)} }) :
                c \in {DiversityCandidates(mgr, RecentFeatures(mgr), rnd)} })

\* state_manager._normalize_for_comparison(response[:80]): the sentences that
\* begin within the first 80 characters, without the removed filler words;
\* cut tells that the 80th character falls inside the sentence
FillerWords ==
    {"i", "me", "my", "the", "a", "an", "is", "are", "was", "were", "been", "be",
     "have", "has", "do", "does", "did"}

RECURSIVE PrefixPattern(_, _)
PrefixPattern(text, room) ==
    IF text = <<>> \/ room <= 0 THEN <<>>
    ELSE <<[w |-> text[1].w \ FillerWords, cut |-> text[1].n > room]>>
            \o PrefixPattern(Tail(text), room - text[1].n - 1)

_normalize_for_comparison(response) == PrefixPattern(response, 80)

\* _similarity_score(text1, text2) >= num / den
SimilarityAbove_or_equal(text1, text2, num, den) ==
    LET words1 == Words(text1)
        words2 == Words(text2)
    IN  /\ words1 # {}
        /\ words2 # {}
        /\ Cardinality(words1 \cap words2) * den >= num * Cardinality(words1 \cup words2)

\* state_manager._similarity_score(text1, text2) > num / den
SimilarityAbove(text1, text2, num, den) ==
    LET words1 == Words(text1)
        words2 == Words(text2)
    IN  /\ words1 # {}
        /\ words2 # {}
        /\ Cardinality(words1 \cap words2) * den > num * Cardinality(words1 \cup words2)

\* state_manager.should_avoid_response
should_avoid_response(mgr, candidate_response) ==
    \/ _normalize_for_comparison(candidate_response) \in mgr.response_patterns
    \/ \E i \in DOMAIN mgr.recent_responses :
            /\ i > Len(mgr.recent_responses) - 3
            /\ SimilarityAbove(candidate_response, mgr.recent_responses[i], 3, 4)

\* state_manager._track_response
_track_response(mgr, response) ==
    LET appended == Append(mgr.recent_responses, response)
    IN  [mgr EXCEPT
            !.recent_responses =
                IF Len(appended) > max_recent_responses THEN Tail(appended) ELSE appended,
            !.response_patterns = @ \cup {_normalize_for_comparison(response)}]

\* _update_active_topics that adds the new topics to the active ones
_update_active_topics_union(mgr, new_topics) ==
    IF new_topics # {} /\ "unknown" \notin new_topics
    THEN [mgr EXCEPT !.previous_topics = @ \cup (mgr.active_topics \ new_topics),
                     !.active_topics = @ \cup new_topics]
    ELSE mgr

\* state_manager._update_active_topics
_update_active_topics(mgr, new_topics) ==
    IF new_topics # {} /\ "unknown" \notin new_topics
    THEN [mgr EXCEPT !.previous_topics = @ \cup (mgr.active_topics \ new_topics),
                     !.active_topics = new_topics]
    ELSE mgr

\* _progress_emotion with the first threshold one turn early
EmotionFor_early(turn_count) ==
    IF turn_count < 3 THEN "high_anxiety"
    ELSE IF turn_count <= 7 THEN "technical_confusion"
    ELSE IF turn_count <= 10 THEN "frustration"
    ELSE "suspicion"

\* the emotional state of state_manager._progress_emotion for a turn count
EmotionFor(turn_count) ==
    IF turn_count <= 3 THEN "high_anxiety"
    ELSE IF turn_count <= 7 THEN "technical_confusion"
    ELSE IF turn_count <= 10 THEN "frustration"
    ELSE "suspicion"

\* state_manager._progress_emotion
_progress_emotion(mgr) ==
    LET new_emotion == EmotionFor(mgr.turn_count)
    IN  IF new_emotion # mgr.current_emotion
        THEN [mgr EXCEPT !.current_emotion = new_emotion,
                         !.emotion_history = Append(@, <<mgr.turn_count, new_emotion>>)]
        ELSE mgr

\* d[key] = value
Put(d, key, value) == [k \in (DOMAIN d) \cup {key} |-> IF k = key THEN value ELSE d[k]]

\* d.get(key, default)
Get(d, key, default) == IF key \in DOMAIN d THEN d[key] ELSE default

RECURSIVE RecordFacts_no_kind(_, _)
\* the loop of update_turn without received_fact_types.add(fact_type)
RecordFacts_no_kind(mgr, facts) ==
    IF facts = <<>> THEN mgr
    ELSE RecordFacts_no_kind(
            [mgr EXCEPT
                !.extracted_facts = Put(@, facts[1][2], <<facts[1][1], mgr.turn_count>>)],
            Tail(facts))

RECURSIVE RecordFacts(_, _)
\* the loop of update_turn over the facts <<kind, value>> of the message
RecordFacts(mgr, facts) ==
    IF facts = <<>> THEN mgr
    ELSE RecordFacts(
            [mgr EXCEPT
                !.extracted_facts = Put(@, facts[1][2], <<facts[1][1], mgr.turn_count>>),
                !.received_fact_types = @ \cup {facts[1][1]}],
            Tail(facts))

\* state_manager._extract_facts_from_message, flattened in the order of the
\* dictionary: the message carries what the patterns extract from it
_extract_facts_from_message(message) == message.ledger

\* state_manager._detect_topics
_detect_topics(message) == message.topics

\* state_manager.update_turn
update_turn(mgr, scammer_message, generated_response) ==
    LET counted == [mgr EXCEPT !.turn_count = @ + 1]
        tracked == _track_response(counted, generated_response)
        topical == _update_active_topics(tracked, _detect_topics(scammer_message))
        recorded == RecordFacts(topical, _extract_facts_from_message(scammer_message))
    IN  _progress_emotion(recorded)

needed == <<"upi", "bank_account", "phone", "link", "case_number">>

\* get_missing_facts over the kinds stored in the ledger
get_missing_facts_from_ledger(mgr) ==
    Without(needed, {mgr.extracted_facts[value][1] : value \in DOMAIN mgr.extracted_facts})

\* state_manager.get_missing_facts
get_missing_facts(mgr) == Without(needed, mgr.received_fact_types)

\* state_manager.detect_contradiction: whether one is detected
detect_contradiction(scammer_message) == "contradiction" \in scammer_message.m

\* data_echo_counts.get(data_value, 0); the dictionary is kept as the sequence
\* of its items <<value, count>> in the order of insertion
EchoCount(mgr, data_value) ==
    LET items == SelectSeq(mgr.data_echo_counts, LAMBDA item : item[1] = data_value)
    IN  IF items = <<>> THEN 0 ELSE items[1][2]

\* state_manager.record_data_echo
record_data_echo(mgr, data_value) ==
    LET cleaned == clean(data_value)
        at == {i \in DOMAIN mgr.data_echo_counts : mgr.data_echo_counts[i][1] = cleaned}
    IN  IF at = {}
        THEN [mgr EXCEPT !.data_echo_counts = Append(@, <<cleaned, 1>>)]
        ELSE [mgr EXCEPT !.data_echo_counts =
                [i \in DOMAIN @ |-> IF i \in at THEN <<cleaned, @[i][2] + 1>> ELSE @[i]]]

\* state_manager.get_data_reference
get_data_reference(mgr, data_value) ==
    LET cleaned == clean(data_value)
    IN  IF EchoCount(mgr, cleaned) = 0 THEN data_value
        ELSE IF Len(cleaned) >= 8 THEN "..." \o Last4(cleaned)
        ELSE IF Len(cleaned) >= 4 THEN "ending " \o Last4(cleaned)
        ELSE data_value

prefix_map(fact_type, fact_value) ==
    CASE fact_type = "link" -> link_prefixes(fact_value)
      [] fact_type = "phone" -> phone_prefixes(fact_value)
      [] fact_type = "upi" -> upi_prefixes(fact_value)
      [] fact_type = "bank_account" -> account_prefixes(fact_value)
      [] OTHER -> default_prefixes(fact_value)

\* get_varied_ack_prefix without the filter of the used phrases
get_varied_ack_prefix_unfiltered(mgr, fact_type, fact_value, rnd) ==
    Only({ [mgr |-> [mgr EXCEPT !.used_ack_phrases = Append(@, chosen)], out |-> chosen] :
           chosen \in {random_choice(prefix_map(fact_type, fact_value), rnd)} })

\* state_manager.get_varied_ack_prefix: [mgr, out]
get_varied_ack_prefix(mgr, fact_type, fact_value, rnd) ==
    Only({ [mgr |-> [mgr EXCEPT !.used_ack_phrases = Append(@, chosen)], out |-> chosen] :
           chosen \in {ChooseNotIn(prefix_map(fact_type, fact_value),
                                   Range(mgr.used_ack_phrases), rnd)} })

question_map(fact_type, fact_value) ==
    CASE fact_type = "upi" -> upi_questions(fact_value)
      [] fact_type = "phone" -> phone_questions(fact_value)
      [] fact_type = "link" -> link_questions
      [] fact_type = "bank_account" -> account_questions(fact_value)
      [] OTHER -> <<>>

\* state_manager.get_fact_validation_question: [mgr, out]; out is <<>> for None
get_fact_validation_question(mgr, fact_type, fact_value, rnd) ==
    IF fact_value \in mgr.validated_facts THEN [mgr |-> mgr, out |-> <<>>]
    ELSE [mgr |-> [mgr EXCEPT !.validated_facts = @ \cup {fact_value}],
          out |-> Only({ IF candidates = <<>> THEN <<>> ELSE random_choice(candidates, rnd) :
                         candidates \in {question_map(fact_type, fact_value)} })]

mirror_map(fact_type, fact_value) ==
    CASE fact_type = "upi" -> upi_mirrors(fact_value)
      [] fact_type = "phone" -> phone_mirrors(fact_value)
      [] fact_type = "link" -> link_mirrors(fact_value)
      [] fact_type = "bank_account" -> account_mirrors(fact_value)
      [] OTHER -> <<>>

\* mirror_and_verify without mirrored_data_points.add(fact_value)
mirror_and_verify_no_mark(mgr, fact_type, fact_value, rnd) ==
    IF fact_value \in mgr.mirrored_data_points THEN [mgr |-> mgr, out |-> <<>>]
    ELSE [mgr |-> mgr,
          out |-> Only({ IF candidates = <<>> THEN default_mirror(fact_value)
                         ELSE random_choice(candidates, rnd) :
                         candidates \in {mirror_map(fact_type, fact_value)} })]

\* state_manager.mirror_and_verify: [mgr, out]; out is <<>> for None
mirror_and_verify(mgr, fact_type, fact_value, rnd) ==
    IF fact_value \in mgr.mirrored_data_points THEN [mgr |-> mgr, out |-> <<>>]
    ELSE [mgr |-> [mgr EXCEPT !.mirrored_data_points = @ \cup {fact_value}],
          out |-> Only({ IF candidates = <<>> THEN default_mirror(fact_value)
                         ELSE random_choice(candidates, rnd) :
                         candidates \in {mirror_map(fact_type, fact_value)} })]

baits(fact_type) ==
    CASE fact_type = "upi" -> baits_upi
      [] fact_type = "link" -> baits_link
      [] fact_type = "phone" -> baits_phone
      [] fact_type = "bank_account" -> baits_bank_account

priority == <<"upi", "link", "bank_account", "phone">>

\* get_strategic_bait that follows the order of get_missing_facts
get_strategic_bait_missing_order(mgr, rnd) ==
    LET wanted == SelectSeq(get_missing_facts(mgr),
                            LAMBDA fact_type : fact_type \in Range(priority))
    IN  IF wanted = <<>> THEN <<>> ELSE random_choice(baits(wanted[1]), rnd)

\* state_manager.get_strategic_bait: <<>> for None
get_strategic_bait(mgr, rnd) ==
    LET missing == Range(get_missing_facts(mgr))
        wanted == SelectSeq(priority, LAMBDA fact_type : fact_type \in missing)
    IN  IF wanted = <<>> THEN <<>> ELSE random_choice(baits(wanted[1]), rnd)

-----------------------------------------------------------------------------
(* GroqHandler: helpers of the reply pipeline.  The conversation is a      *)
(* sequence of entries [sender |-> "scammer", msg |-> a scammer message]   *)
(* and [sender |-> "user", text |-> a reply of the honeypot].              *)

\* xs[-n:]
LastN(xs, n) == IF Len(xs) > n THEN SubSeq(xs, Len(xs) - n + 1, Len(xs)) ELSE xs

\* xs[:n]
FirstN(xs, n) == IF Len(xs) > n THEN SubSeq(xs, 1, n) ELSE xs

RECURSIVE Dedup(_)
\* list(dict.fromkeys(xs))
Dedup(xs) ==
    IF xs = <<>> THEN <<>>
    ELSE LET rest == Dedup(SubSeq(xs, 1, Len(xs) - 1))
             last == xs[Len(xs)]
         IN  IF last \in Range(rest) THEN rest ELSE Append(rest, last)

RECURSIVE Flatten(_)
Flatten(xss) == IF xss = <<>> THEN <<>> ELSE xss[1] \o Flatten(Tail(xss))

UpperChars == "ABCDEFGHIJKLMNOPQRSTUVWXYZ"

LowerChars == "abcdefghijklmnopqrstuvwxyz"

UpperSet == {SubSeq(UpperChars, i, i) : i \in 1..26}

RECURSIVE Lower(_)
\* s.lower()
Lower(s) ==
    IF Len(s) = 0 THEN ""
    ELSE LET c == SubSeq(s, 1, 1)
         IN  (IF c \in UpperSet
              THEN LET i == CHOOSE j \in 1..26 : SubSeq(UpperChars, j, j) = c
                   IN  SubSeq(LowerChars, i, i)
              ELSE c)
                \o Lower(SubSeq(s, 2, Len(s)))

\* whether s starts with prefix
StartsWith(s, prefix) == Len(s) >= Len(prefix) /\ SubSeq(s, 1, Len(prefix)) = prefix

\* s.split(sep)[0] for a separator of one character
BeforeFirst(s, sep) ==
    LET at == {i \in 1..Len(s) : SubSeq(s, i, i) = sep}
    IN  IF at = {} THEN s
        ELSE SubSeq(s, 1, (CHOOSE i \in at : \A j \in at : i <= j) - 1)

\* groq_handler._extract_domain
_extract_domain(url) ==
    LET u == Lower(url)
        bare == IF StartsWith(u, "https://") THEN SubSeq(u, 9, Len(u))
                ELSE IF StartsWith(u, "http://") THEN SubSeq(u, 8, Len(u))
                ELSE u
    IN  BeforeFirst(bare, "/")

\* groq_handler._extract_scammer_facts: the facts of the scammer's messages among
\* the last 12 of the conversation and of the current message, without repeats
_extract_scammer_facts(scammer_message, conversation_history) ==
    LET recent == LastN(conversation_history, 12)
        scammer == SelectSeq(recent, LAMBDA h : h.sender = "scammer")
        msgs == [i \in 1..Len(scammer) |-> scammer[i].msg] \o <<scammer_message>>
    IN  [links |-> Dedup(Flatten([i \in DOMAIN msgs |-> msgs[i].links])),
         upi_ids |-> Dedup(Flatten([i \in DOMAIN msgs |-> msgs[i].upi_ids])),
         phone_numbers |-> Dedup(Flatten([i \in DOMAIN msgs |-> msgs[i].phone_numbers])),
         bank_accounts |-> Dedup(Flatten([i \in DOMAIN msgs |-> msgs[i].bank_accounts]))]

\* _get_prev_bot_texts that keeps the last reply only
_get_prev_bot_texts_last_only(conversation_history) ==
    LET recent == LastN(conversation_history, 12)
        own == SelectSeq(recent, LAMBDA h : h.sender = "user" /\ h.text # <<>>)
    IN  LastN([i \in 1..Len(own) |-> own[i].text], 1)

\* groq_handler._get_prev_bot_texts (limit = 6)
_get_prev_bot_texts(conversation_history) ==
    LET recent == LastN(conversation_history, 12)
        own == SelectSeq(recent, LAMBDA h : h.sender = "user" /\ h.text # <<>>)
    IN  LastN([i \in 1..Len(own) |-> own[i].text], 6)

\* groq_handler._link_failure_mode_from_history
_link_failure_mode_from_history(prev_bot_texts) ==
    LET telling == {i \in DOMAIN prev_bot_texts :
                        /\ "h_link" \in Markers(prev_bot_texts[i])
                        /\ Markers(prev_bot_texts[i]) \cap {"loading_claim", "h_error"} # {}}
        last == CHOOSE i \in telling : \A j \in telling : j <= i
    IN  IF telling = {} THEN "None"
        ELSE IF "loading_claim" \in Markers(prev_bot_texts[last]) THEN "loading"
        ELSE "error"

\* a in b, for texts that meet at ends of sentences
SubseqOf(a, b) ==
    \E i \in 1..(Len(b) - Len(a) + 1) : SubSeq(b, i, i + Len(a) - 1) = a

\* groq_handler._similar
_similar(a, b) ==
    IF a = <<>> \/ b = <<>> THEN FALSE
    ELSE \/ a = b
         \/ TextLen(a) > 20 /\ SubseqOf(a, b)
         \/ TextLen(b) > 20 /\ SubseqOf(b, a)
         \/ /\ Words(a) # {}
            /\ Words(b) # {}
            /\ Cardinality(Words(a) \cap Words(b)) * 10 >= 7 * Cardinality(Words(a))

RECURSIVE WordsLen(_)
\* the number of characters of the words of a set
WordsLen(words) ==
    IF words = {} THEN 0
    ELSE LET word == CHOOSE x \in words : TRUE IN Len(word) + WordsLen(words \ {word})

RECURSIVE Collapse(_)
\* while '..' in s: s = s.replace('..', '.')
Collapse(s) == IF Contains(s, "..") THEN Collapse(Replace(s, "..", ".")) ELSE s

\* cleaned.replace('!', '.') and the collapse of double periods, on a word
TidyWord(word) == Collapse(Replace(word, "!", "."))

\* the same on a sentence: its words change and it gets shorter by the
\* characters removed
TidySentence(s) ==
    LET changed == {word \in s.w : Contains(word, "!") \/ Contains(word, "..")}
    IN  IF changed = {} THEN s
        ELSE [s EXCEPT !.w = (s.w \ changed) \cup {TidyWord(word) : word \in changed},
                       !.n = @ - (WordsLen(changed) - WordsLen({TidyWord(word) : word \in changed}))]

\* groq_handler._clean_response without its cut at 220 characters: the replies
\* of the generator in the model are shorter, and their interjections ("oh
\* no", "my god") are sentences of their own
_clean_response(response) ==
    LET truncated == _truncate_to_two_sentences(response)
        stripped == SelectSeq(truncated, LAMBDA s : "interjection_only" \notin s.m)
        cleaned == [i \in DOMAIN stripped |-> TidySentence(stripped[i])]
    IN  IF response = <<>> THEN empty_reply_text
        ELSE IF "forbidden" \in Markers(truncated) THEN sanitized_reply
        ELSE IF TextLen(cleaned) > 15 THEN cleaned
        ELSE sanitized_reply

\* groq_handler._has_any_fact
_has_any_fact(facts) ==
    \/ facts.links # <<>>
    \/ facts.phone_numbers # <<>>
    \/ facts.bank_accounts # <<>>
    \/ facts.upi_ids # <<>>

\* groq_handler._mentions_any_fact; the digits of a telephone number are looked
\* for within the words of the reply
_mentions_any_fact(reply, facts) ==
    \/ \E i \in DOMAIN FirstN(facts.links, 2) :
            \/ _extract_domain(facts.links[i]) # "" /\ Mentions(reply, _extract_domain(facts.links[i]))
            \/ Mentions(reply, Lower(facts.links[i]))
    \/ \E i \in DOMAIN FirstN(facts.phone_numbers, 2) :
            /\ Digits(facts.phone_numbers[i]) # ""
            /\ \E word \in Words(reply) : Contains(Digits(word), Digits(facts.phone_numbers[i]))
    \/ \E i \in DOMAIN FirstN(facts.bank_accounts, 2) : Mentions(reply, facts.bank_accounts[i])
    \/ \E i \in DOMAIN FirstN(facts.upi_ids, 2) : Mentions(reply, facts.upi_ids[i])

\* the fact that _ack_prefix acknowledges: <<kind, value>>
AckFact(facts) ==
    IF facts.links # <<>> THEN <<"link", _extract_domain(facts.links[1])>>
    ELSE IF facts.upi_ids # <<>> THEN <<"upi", facts.upi_ids[1]>>
    ELSE IF facts.phone_numbers # <<>> THEN <<"phone", facts.phone_numbers[1]>>
    ELSE <<"bank_account", facts.bank_accounts[1]>>

\* groq_handler._ack_prefix with a state manager: [mgr, out]
_ack_prefix(facts, mgr, rnd) ==
    IF _has_any_fact(facts)
    THEN Only({ get_varied_ack_prefix(mgr, fact[1], fact[2], rnd) : fact \in {AckFact(facts)} })
    ELSE [mgr |-> mgr, out |-> okay_prefix]

\* a word after the substitutions of _strip_data_echoes for data_val: the value
\* itself and the value with +91 before its last ten characters (a value
\* written with blanks between its characters is not in any text of the model)
StripWord(word, data_val, partial) ==
    LET plain == Replace(word, data_val, partial)
    IN  IF Len(data_val) >= 10
        THEN Replace(Replace(plain, "+91-" \o Last10(data_val), partial),
                     "+91" \o Last10(data_val), partial)
        ELSE plain

\* a sentence after the substitutions: its words, its length, what can still be
\* extracted from it; of its markers only case_ask depends on a word that the
\* substitution can break ("reference")
StripSentence(s, data_val, partial) ==
    LET changed == {word \in s.w : StripWord(word, data_val, partial) # word}
        words == {StripWord(word, data_val, partial) : word \in s.w}
        stripped == {StripWord(word, data_val, partial) : word \in changed}
    IN  IF changed = {} THEN s
        ELSE [s EXCEPT
                !.w = words,
                !.n = @ - (WordsLen(changed) - WordsLen(stripped)),
                !.e = SelectSeq(@, LAMBDA item : item[2] # data_val),
                !.m = IF \E word \in words : Contains(word, "reference")
                      THEN @ ELSE @ \ {"case_ask"}]

RECURSIVE StripValues(_, _, _)
\* the first loop of _strip_data_echoes over the items of data_echo_counts
StripValues(modified, mgr, items) ==
    IF items = <<>> THEN modified
    ELSE LET data_val == items[1][1]
             present == \E word \in Words(modified) : Contains(clean(word), data_val)
             partial == get_data_reference(mgr, data_val)
         IN  StripValues(
                IF items[1][2] >= max_data_echo /\ Len(data_val) >= 8 /\ present
                THEN [i \in DOMAIN modified |-> StripSentence(modified[i], data_val, partial)]
                ELSE modified,
                mgr, Tail(items))

\* what _extract_facts_from_message extracts from a reply, values cleaned; a
\* UPI id is extracted once
Extracted(text) ==
    LET all == Flatten([i \in DOMAIN text |-> text[i].e])
        kept == {i \in DOMAIN all :
                    ~(all[i][1] = "upi" /\ \E j \in 1..(i - 1) : all[j] = all[i])}
    IN  SelectSeq([i \in DOMAIN all |-> <<all[i], i \in kept>>], LAMBDA p : p[2])

RECURSIVE RecordEchoes(_, _)
\* the second loop of _strip_data_echoes
RecordEchoes(mgr, items) ==
    IF items = <<>> THEN mgr
    ELSE RecordEchoes(
            IF Len(items[1][1][2]) >= 8 THEN record_data_echo(mgr, items[1][1][2]) ELSE mgr,
            Tail(items))

\* groq_handler._strip_data_echoes: [mgr, out]
_strip_data_echoes(reply, mgr) ==
    [mgr |-> RecordEchoes(mgr, Extracted(reply)),
     out |-> StripValues(reply, mgr, mgr.data_echo_counts)]

RECURSIVE AddBaits(_, _)
\* the loop of _fallback_non_payment_reply over strategic_baits
AddBaits(candidates, more) ==
    IF more = <<>> THEN candidates
    ELSE AddBaits(
            IF \E i \in DOMAIN candidates : _similar(more[1], candidates[i])
            THEN candidates ELSE Append(candidates, more[1]),
            Tail(more))

\* the candidates of _fallback_non_payment_reply
FallbackCandidates(scammer_facts, prev_bot_texts) ==
    LET link_mode == _link_failure_mode_from_history(prev_bot_texts)
        for_facts ==
            (IF scammer_facts.links = <<>> THEN <<>>
             ELSE IF link_mode = "loading" THEN link_loading_candidates
             ELSE IF link_mode = "error" THEN link_error_candidates
             ELSE link_candidates)
            \o (IF scammer_facts.phone_numbers = <<>> THEN <<>> ELSE phone_candidates)
            \o (IF scammer_facts.bank_accounts = <<>> THEN <<>>
                ELSE account_candidates(scammer_facts.bank_accounts[1]))
            \o (IF scammer_facts.upi_ids = <<>> THEN <<>>
                ELSE upi_candidates(scammer_facts.upi_ids[1]))
    IN  Only({ AddBaits(IF c = <<>> THEN generic_candidates ELSE c, strategic_baits) :
               c \in {for_facts} })

\* the tiers of _fallback_non_payment_reply with a random candidate in place
\* of the stall of tier 3
PickFallback_from_pool(candidates, prev_bot_texts, mgr, rnd) ==
    LET used_fallbacks == mgr.used_fallback_responses
        Repeats(c) == \E i \in DOMAIN prev_bot_texts : _similar(c, prev_bot_texts[i])
        tier1 == SelectSeq(candidates, LAMBDA c : c \notin used_fallbacks /\ ~Repeats(c))
        tier2 == SelectSeq(candidates, LAMBDA c : c \notin used_fallbacks)
    IN  IF tier1 # <<>> THEN [mgr |-> mgr, out |-> random_choice(tier1, rnd)]
        ELSE IF tier2 # <<>> THEN [mgr |-> mgr, out |-> random_choice(tier2, rnd)]
        ELSE [mgr |-> mgr, out |-> random_choice(candidates, rnd)]

\* the three tiers of _fallback_non_payment_reply: [mgr, out]
PickFallback(candidates, prev_bot_texts, mgr, rnd) ==
    LET used_fallbacks == mgr.used_fallback_responses
        Repeats(c) == \E i \in DOMAIN prev_bot_texts : _similar(c, prev_bot_texts[i])
        tier1 == SelectSeq(candidates, LAMBDA c : c \notin used_fallbacks /\ ~Repeats(c))
        tier2 == SelectSeq(candidates, LAMBDA c : c \notin used_fallbacks)
    IN  IF tier1 # <<>> THEN [mgr |-> mgr, out |-> random_choice(tier1, rnd)]
        ELSE IF tier2 # <<>> THEN [mgr |-> mgr, out |-> random_choice(tier2, rnd)]
        ELSE get_process_confusion_stall(mgr, rnd)

\* groq_handler._fallback_non_payment_reply: [mgr, out]
_fallback_non_payment_reply(scammer_facts, prev_bot_texts, mgr, rnd) ==
    Only({ [mgr |-> [chosen.mgr EXCEPT !.used_fallback_responses = @ \cup {chosen.out}],
            out |-> _truncate_to_two_sentences(chosen.out)] :
           chosen \in {PickFallback(FallbackCandidates(scammer_facts, prev_bot_texts),
                                    prev_bot_texts, mgr, rnd)} })

\* groq_handler._choose_strategy: the field allow_payment_questions of the
\* strategy (the other fields only reach the prompt)
_choose_strategy(scammer_message, scammer_facts) ==
    [allow_payment_questions |->
        "pay_words" \in scammer_message.m \/ scammer_facts.upi_ids # <<>>]

\* groq_handler._build_system_prompt: what it changes in the state manager, the
\* emotional state it writes into the prompt and the category it announces.  The draw of get_next_tactic_category for the
\* announcement is rnd_prompt; get_next_tactic draws again.
_build_system_prompt(mgr, rnd, rnd_prompt) ==
    Only({ Only({ [mgr |-> next_tactic.mgr,
                   emotion |-> mgr.current_emotion,
                   next_cat |-> get_next_tactic_category(stall_suggestion.mgr, rnd_prompt),
                   next_tactic |-> next_tactic.out] :
                  next_tactic \in {get_next_tactic(stall_suggestion.mgr, rnd)} }) :
           stall_suggestion \in {get_process_confusion_stall(mgr, rnd)} })

RECURSIVE MirrorLoop(_, _, _, _)
\* guardrail 4: the loop over the facts of the scammer's message; out is <<>>
\* when the loop returns nothing
MirrorLoop(mgr, new_facts, mentioned, rnd) ==
    IF new_facts = <<>> THEN [mgr |-> mgr, out |-> <<>>]
    ELSE Only({
            IF mirror_response.out # <<>> /\ ~mentioned
            THEN [mgr |-> mirror_response.mgr,
                  out |-> _truncate_to_two_sentences(mirror_response.out)]
            ELSE Only({
                    IF question.out # <<>> /\ ~mentioned
                    THEN [mgr |-> question.mgr,
                          out |-> _truncate_to_two_sentences(question.out)]
                    ELSE MirrorLoop(question.mgr, Tail(new_facts), mentioned, rnd) :
                    question \in {get_fact_validation_question(
                                    mirror_response.mgr, new_facts[1][1], new_facts[1][2], rnd)} }) :
            mirror_response \in {mirror_and_verify(mgr, new_facts[1][1], new_facts[1][2], rnd)} })

\* re.search(r'\baccount\b.*\bnumber\b', low)
AccountThenNumber(text) ==
    \/ "push_acct" \in Markers(text)
    \/ \E i, j \in DOMAIN text :
            i < j /\ "account_word" \in text[i].m /\ "number_word" \in text[j].m

excuse_phrases ==
    <<"ex_not_loading", "ex_not_opening", "ex_app_is_not", "ex_messaging_app",
      "ex_screen_is_frozen", "ex_phone_is_frozen">>

\* The guardrails 5 to 9 work on g = [mgr, out, fired]: the state manager, the
\* reply so far and the guardrails that changed the reply.

\* guardrail 5, ANTI-ECHO
AntiEcho(g) ==
    Only({ [mgr |-> stripped.mgr, out |-> stripped.out,
            fired |-> g.fired \cup (IF stripped.out # g.out THEN {"5"} ELSE {})] :
           stripped \in {_strip_data_echoes(g.out, g.mgr)} })

\* guardrail 6, STRATEGIC BAITING; coin tells that random.random() is below 0.7
StrategicBaiting(g, rnd, coin) ==
    LET missing == Range(get_missing_facts(g.mgr))
        pushes_for_missing ==
            \/ "upi" \in missing /\ "push_upi" \in Markers(g.out)
            \/ "link" \in missing /\ "push_link" \in Markers(g.out)
            \/ "bank_account" \in missing /\ AccountThenNumber(g.out)
        bait == get_strategic_bait(g.mgr, rnd)
    IN  IF /\ missing # {}
           /\ TextLen(g.out) < 150
           /\ ~pushes_for_missing
           /\ (coin \/ g.mgr.turn_count >= 5)
           /\ bait # <<>>
        THEN [g EXCEPT !.out = _truncate_to_two_sentences(Join(g.out, bait)),
                       !.fired = @ \cup {"6"}]
        ELSE g

\* the reply replaced by a process confusion stall
ReplaceByStall(g, rnd, guardrail) ==
    Only({ [mgr |-> stall.mgr, out |-> _truncate_to_two_sentences(stall.out),
            fired |-> g.fired \cup {guardrail}] :
           stall \in {get_process_confusion_stall(g.mgr, rnd)} })

\* guardrail 7, PHYSICAL CATASTROPHE GUARD
CatastropheGuard(g, rnd) ==
    IF "catastrophe" \in Markers(g.out) THEN ReplaceByStall(g, rnd, "7") ELSE g

\* guardrail 8, EXCUSE REPETITION GUARD
ExcuseRepetitionGuard(g, prev_bot_texts, rnd) ==
    IF \E k \in DOMAIN excuse_phrases :
            /\ excuse_phrases[k] \in Markers(g.out)
            /\ \E i \in DOMAIN prev_bot_texts : excuse_phrases[k] \in Markers(prev_bot_texts[i])
    THEN ReplaceByStall(g, rnd, "8")
    ELSE g

\* guardrail 9, STRUCTURAL MONOTONY BREAKER
MonotonyBreaker(g, rnd) ==
    IF is_structurally_repetitive(g.mgr, g.out)
    THEN Only({ [mgr |-> diversity_reply.mgr,
                 out |-> IF diversity_reply.out # <<>>
                         THEN _truncate_to_two_sentences(diversity_reply.out) ELSE g.out,
                 fired |-> g.fired \cup {"9"}] :
                diversity_reply \in {get_diversity_replacement(g.mgr, rnd)} })
    ELSE g

\* guardrails 5 to 9 of _apply_post_guardrails and the recording of the
\* skeleton of the final reply
LaterGuardrails(reply, prev_bot_texts, mgr, rnd, coin) ==
    Only({ [mgr |-> record_response_skeleton(g.mgr, g.out),
            out |-> g.out, exit |-> "end", fired |-> g.fired] :
           g \in {MonotonyBreaker(
                    ExcuseRepetitionGuard(
                        CatastropheGuard(
                            StrategicBaiting(
                                AntiEcho([mgr |-> mgr, out |-> reply, fired |-> {}]),
                                rnd, coin),
                            rnd),
                        prev_bot_texts, rnd),
                    rnd)} })

\* a return statement of _apply_post_guardrails before guardrail 5
Return(r, exit) == [mgr |-> r.mgr, out |-> r.out, exit |-> exit, fired |-> {exit}]

\* groq_handler._apply_post_guardrails: [mgr, out, exit, fired]; exit names the
\* guardrail whose return statement ended the call
_apply_post_guardrails(reply, scammer_message, conversation_history, scammer_facts, strategy, mgr, rnd, coin) ==
    LET prev_bot_texts == _get_prev_bot_texts(conversation_history)
        last_bot == IF prev_bot_texts = <<>> THEN <<>> ELSE prev_bot_texts[Len(prev_bot_texts)]
        strategic_baiting_active == Len(prev_bot_texts) >= 4
        link_mode == _link_failure_mode_from_history(prev_bot_texts)
        recent4 == LastN(prev_bot_texts, 4)
        case_persist_count ==
            Cardinality({i \in DOMAIN recent4 : "case_ask" \in Markers(recent4[i])})
        mentioned == _mentions_any_fact(reply, scammer_facts)
    IN  IF /\ ~strategy.allow_payment_questions
           /\ ~strategic_baiting_active
           /\ "pay_topic" \in Markers(reply)
        THEN Return(_fallback_non_payment_reply(scammer_facts, prev_bot_texts, mgr, rnd), "1")
        ELSE IF /\ scammer_facts.links = <<>>
                /\ "link_word" \in Markers(reply)
                /\ "link_action" \in Markers(reply)
        THEN Return([mgr |-> mgr, out |-> _truncate_to_two_sentences(no_link_reply)], "1b")
        ELSE IF /\ link_mode = "loading"
                /\ "link" \in Markers(reply)
                /\ "error_claim" \in Markers(reply)
        THEN Return([mgr |-> mgr, out |-> _truncate_to_two_sentences(still_loading_reply)], "1c")
        ELSE IF /\ link_mode = "error"
                /\ "link" \in Markers(reply)
                /\ "loading_claim" \in Markers(reply)
        THEN Return([mgr |-> mgr, out |-> _truncate_to_two_sentences(error_page_reply)], "1c")
        ELSE IF /\ "case_word" \in Markers(last_bot)
                /\ "case_ref" \notin scammer_message.m
                /\ "new_topic" \notin scammer_message.m
                /\ case_persist_count < 2
        THEN Return([mgr |-> mgr, out |-> _truncate_to_two_sentences(case_persist_reply)], "1d")
        ELSE IF \E i \in DOMAIN prev_bot_texts : _similar(reply, prev_bot_texts[i])
        THEN Return(_fallback_non_payment_reply(scammer_facts, prev_bot_texts, mgr, rnd), "2")
        ELSE IF _has_any_fact(scammer_facts) /\ ~mentioned
        THEN Only({ Return([mgr |-> prefix.mgr,
                            out |-> _truncate_to_two_sentences(Join(prefix.out, reply))], "3") :
                    prefix \in {_ack_prefix(scammer_facts, mgr, rnd)} })
        ELSE Only({ IF validated.out # <<>>
                    THEN Return(validated, "4")
                    ELSE LaterGuardrails(reply, prev_bot_texts, validated.mgr, rnd, coin) :
                    validated \in {MirrorLoop(mgr, _extract_facts_from_message(scammer_message),
                                              mentioned, rnd)} })

\* a candidate reply: [mgr, out, avoided]
Candidate(r, avoided) == [mgr |-> r.mgr, out |-> r.out, avoided |-> avoided]

\* _apply_post_guardrails on a candidate reply, as both branches of
\* generate_response call it
Guarded(candidate, path, scammer_message, conversation_history, scammer_facts, strategy, rnd, coin) ==
    Only({ [mgr |-> guarded.mgr,
            out |-> guarded.out,
            path |-> path,
            candidate |-> candidate.out,
            avoided |-> candidate.avoided,
            exit |-> guarded.exit,
            fired |-> guarded.fired,
            external_calls |-> 1] :
           guarded \in {_apply_post_guardrails(
                            candidate.out, scammer_message, conversation_history,
                            scammer_facts, strategy, candidate.mgr, rnd, coin)} })

\* state_mgr.update_turn(scammer_message, reply) at the end of a branch
Recorded(done, scammer_message) ==
    [done EXCEPT !.mgr = update_turn(@, scammer_message, done.out)]

\* groq_handler.generate_response, lines 161-186: the generator answered with
\* response
generate_response_try(response, scammer_message, conversation_history, scammer_facts, strategy, mgr, rnd, coin) ==
    Recorded(
        Guarded(
            Only({ IF should_avoid_response(mgr, cleaned)
                   THEN Candidate(_fallback_non_payment_reply(
                                    scammer_facts,
                                    _get_prev_bot_texts(conversation_history), mgr, rnd),
                                  TRUE)
                   ELSE Candidate([mgr |-> mgr, out |-> cleaned], FALSE) :
                   cleaned \in {_clean_response(response)} }),
            "generator", scammer_message, conversation_history, scammer_facts, strategy,
            rnd, coin),
        scammer_message)

\* the except branch without its call of update_turn
generate_response_except_no_update(scammer_message, conversation_history, strategy, mgr, rnd, coin) ==
    Guarded(
        Candidate(_fallback_non_payment_reply(
                    _extract_scammer_facts(scammer_message, conversation_history),
                    _get_prev_bot_texts(conversation_history), mgr, rnd),
                  FALSE),
        "failure", scammer_message, conversation_history,
        _extract_scammer_facts(scammer_message, conversation_history), strategy,
        rnd, coin)

\* groq_handler.generate_response, lines 187-209: the call of the generator
\* raised
generate_response_except(scammer_message, conversation_history, strategy, mgr, rnd, coin) ==
    Recorded(
        Guarded(
            Candidate(_fallback_non_payment_reply(
                        _extract_scammer_facts(scammer_message, conversation_history),
                        _get_prev_bot_texts(conversation_history), mgr, rnd),
                      FALSE),
            "failure", scammer_message, conversation_history,
            _extract_scammer_facts(scammer_message, conversation_history), strategy,
            rnd, coin),
        scammer_message)

\* groq_handler.generate_response for an available generator.  generated is
\* what the external call does: [kind |-> "reply", text |-> its answer] or
\* [kind |-> "raise"].
generate_response(scammer_message, conversation_history, mgr, generated, rnd, rnd_prompt, coin) ==
    LET scammer_facts == _extract_scammer_facts(scammer_message, conversation_history)
        noted == IF detect_contradiction(scammer_message)
                 THEN [mgr EXCEPT !.detected_contradictions =
                            Append(@, [turn |-> mgr.turn_count, type |-> "bank_vs_tax"])]
                 ELSE mgr
        strategy == _choose_strategy(scammer_message, scammer_facts)
    IN  Only({ Only({ [mgr |-> done.mgr,
                       out |-> done.out,
                       path |-> done.path,
                       candidate |-> done.candidate,
                       avoided |-> done.avoided,
                       exit |-> done.exit,
                       fired |-> done.fired,
                       external_calls |-> done.external_calls,
                       emotion |-> system_prompt.emotion,
                       next_cat |-> system_prompt.next_cat,
                       next_tactic |-> system_prompt.next_tactic] :
                      done \in {IF generated.kind = "raise"
                                THEN generate_response_except(
                                        scammer_message, conversation_history, strategy,
                                        system_prompt.mgr, rnd, coin)
                                ELSE generate_response_try(
                                        generated.text, scammer_message, conversation_history,
                                        scammer_facts, strategy, system_prompt.mgr, rnd, coin)} }) :
               system_prompt \in {_build_system_prompt(noted, rnd, rnd_prompt)} })

-----------------------------------------------------------------------------
(* ConversationAgent: the session and the rule-based replies *)

\* agent.get_or_create_session: a new SessionState (the fields the replies use)
SessionState == [turn_count |-> 0, intel |-> {}, total_messages |-> 0, turns |-> 0]

\* agent.update_session: the kinds of intelligence are merged, the turn counted
update_session(session, intelligence) ==
    [session EXCEPT !.intel = @ \cup intelligence, !.turn_count = @ + 1]

\* intelligence_extractor.extract over the scammer's messages
extract(all_messages) ==
    UNION {all_messages[i].msg.intel :
                i \in {j \in DOMAIN all_messages : all_messages[j].sender = "scammer"}}

\* the list missing_questions of the rule-based handlers
missing_questions(intel, for_phone, for_upi, for_bank, for_link) ==
    (IF "phone" \in intel THEN <<>> ELSE for_phone)
        \o (IF "upi" \in intel THEN <<>> ELSE for_upi)
        \o (IF "bank" \in intel THEN <<>> ELSE for_bank)
        \o (IF "link" \in intel THEN <<>> ELSE for_link)

\* xs[turn % len(xs)]
ByTurn(xs, turn) == xs[(turn % Len(xs)) + 1]

\* agent._handle_phishing_scam
_handle_phishing_scam(session, rnd) ==
    LET questions == missing_questions(session.intel, phishing_phone_questions,
                        phishing_upi_questions, phishing_bank_questions, phishing_link_questions)
    IN  IF questions # <<>>
        THEN Join(ByTurn(otp_deflections, session.turn_count), ByTurn(questions, session.turn_count))
        ELSE random_choice(engaging_responses, rnd)

\* agent._handle_link_scam
_handle_link_scam(session) ==
    LET questions == missing_questions(session.intel, link_phone_questions,
                        link_upi_questions, link_bank_questions, link_link_questions)
    IN  Join(ByTurn(tech_excuses, session.turn_count),
             IF questions # <<>> THEN ByTurn(questions, session.turn_count)
             ELSE step_by_step_question)

\* agent._handle_generic_scam
_handle_generic_scam(session) ==
    LET questions == missing_questions(session.intel, generic_phone_questions,
                        generic_upi_questions, generic_bank_questions, generic_link_questions)
    IN  Join(ByTurn(generic_responses, session.turn_count),
             IF questions # <<>> THEN ByTurn(questions, session.turn_count)
             ELSE next_steps_question)

\* agent._get_response_for_scam_type, for the scam types of the messages of
\* the model
_get_response_for_scam_type(scam_type, session, rnd) ==
    CASE scam_type = "phishing" -> _handle_phishing_scam(session, rnd)
      [] scam_type = "phishing_link" -> _handle_link_scam(session)
      [] OTHER -> _handle_generic_scam(session)


-----------------------------------------------------------------------------
(* Inputs *)

\* the replies the external generator produces in the model, by position
GeneratorReplies ==
    << <<Snt({"3210,", "3456", "account", "but", "ending", "i'm", "if", "instantly?", "it", "lock", "my", "number", "otp,", "right,", "texting", "that", "the", "what", "will", "wrong"}, {"account_word", "confirm_req", "data_ref", "fear_lock", "number_word", "what_if"}, <<>>, 117)>>,
       <<Snt({"...3210,", "3456", "a", "account", "be", "but", "ending", "i", "i'm", "if", "instantly?", "locked", "make", "mistake,", "my", "panicking,", "said", "send", "to", "what", "will", "you"}, {"account_word", "data_ref", "fear_lock", "panic", "what_if"}, <<>>, 119)>>,
       <<Snt({"...3210,", "3456?", "6-digit", "accidentally", "account", "anxious,", "but", "ending", "forward", "i", "i'm", "if", "lock", "my", "otp", "said", "so", "that", "the", "to", "what", "will", "wrong,", "you"}, {"account_word", "data_ref", "fear_lock", "panic", "what_if"}, <<>>, 141)>>,
       <<Snt({"asking", "code.", "for", "ifsc", "is", "my", "page", "the", "wait,"}, {}, <<>>, 42),
          Snt({"card?", "debit", "do", "find", "i", "my", "on", "that", "where"}, {"confusion"}, <<>>, 38)>>,
       <<Snt({"am", "at", "but", "come.", "has", "i", "looking", "messages", "my", "not", "otp", "the"}, {"compliance"}, <<>>, 53),
          Snt({"again,", "can", "it", "send", "sir?", "you"}, {}, <<>>, 27)>>,
       <<Snt({"a", "i", "is", "know", "scam.", "this"}, {"forbidden"}, <<>>, 22),
          Snt({"are.", "me", "tell", "who", "you"}, {}, <<>>, 20)>>,
       <<Snt({"minute.", "okay", "one", "sir,"}, {}, <<>>, 21),
          Snt({"am", "app", "bank", "i", "now.", "opening", "the"}, {"compliance"}, <<>>, 30),
          Snt({"after", "button", "do", "i", "press", "that?", "which"}, {"confusion"}, <<>>, 35)>>,
       <<Snt({"+919876543210,", "is", "number", "right?", "said", "the", "you"}, {"confirm_req", "data_ref", "number_word"}, << <<"phone", "919876543210">>, <<"bank_account", "919876543210">> >>, 44),
          Snt({"is", "it", "not", "number", "reachable.", "says", "the"}, {"number_word"}, <<>>, 36)>>,
       <<Snt({"no!", "oh"}, {"interjection_only", "oh_no"}, <<>>, 6),
          Snt({"god!", "my"}, {"interjection_only", "my_god"}, <<>>, 7)>>,
       <<Snt({"fee", "i", "now?", "pay", "should", "the"}, {"pay_topic"}, <<>>, 25),
          Snt({"amount.", "me", "tell", "the", "verification"}, {"pay_topic"}, <<>>, 32)>>,
       <<Snt({"i", "just", "my", "now.", "on", "phone", "spilled", "tea"}, {"catastrophe"}, <<>>, 35),
          Snt({"button", "do", "i", "press?", "which"}, {"confusion"}, <<>>, 24)>>,
       <<Snt({"is", "link", "loading", "my", "not", "on", "side.", "the"}, {"ex_not_loading", "h_link", "link", "link_action", "link_word", "loading_claim", "push_link"}, <<>>, 35),
          Snt({"do", "i", "now?", "should", "what"}, {}, <<>>, 21)>>,
       <<Snt({"but", "found.", "i", "it", "not", "says", "scammer@fakebank", "typed", "user"}, {}, << <<"upi", "scammer@fakebank">> >>, 52),
          Snt({"again?", "can", "it", "spell", "you"}, {}, <<>>, 23)>> >>

\* the messages a scammer sends in the model.  Of each: what
\*   ledger   state_manager._extract_facts_from_message extracts, in the order
\*            of its dictionary, as <<kind, value>>
\*   links, upi_ids, phone_numbers, bank_accounts
\*            what groq_handler._extract_scammer_facts extracts
\*   topics   state_manager._detect_topics
\*   m        pay_words: the payment words of _choose_strategy; new_topic and
\*            case_ref: the expressions of guardrail 1d; contradiction:
\*            state_manager.detect_contradiction finds one
\*   scam_type  scam_detector.analyze
\*   intel    the kinds of intelligence intelligence_extractor.extract finds
ScammerMessages ==
    << \* Your SBI account will be blocked today. Share the OTP immediately to avoid suspension.
       [id |-> "otp",
        ledger |-> <<>>,
        links |-> <<>>, upi_ids |-> <<>>,
        phone_numbers |-> <<>>, bank_accounts |-> <<>>,
        topics |-> {"otp"}, m |-> {},
        scam_type |-> "phishing", intel |-> {}],
       \* Send Rs 1 to scammer@fakebank to verify your account.
       [id |-> "upi",
        ledger |-> << <<"upi", "scammer@fakebank">> >>,
        links |-> <<>>, upi_ids |-> << "scammer@fakebank" >>,
        phone_numbers |-> <<>>, bank_accounts |-> <<>>,
        topics |-> {"unknown"}, m |-> {"new_topic", "pay_words"},
        scam_type |-> "generic_scam", intel |-> {"upi"}],
       \* Call our officer on +919876543210 right now.
       [id |-> "phone",
        ledger |-> << <<"phone", "+919876543210">>, <<"bank_account", "919876543210">> >>,
        links |-> <<>>, upi_ids |-> <<>>,
        phone_numbers |-> << "+919876543210" >>, bank_accounts |-> << "919876543210" >>,
        topics |-> {"unknown"}, m |-> {},
        scam_type |-> "generic_scam", intel |-> {"bank", "phone"}],
       \* Click http://secure-sbi-login.com/verify to update your KYC.
       [id |-> "link",
        ledger |-> << <<"link", "http://secure-sbi-login.com/verify">> >>,
        links |-> << "http://secure-sbi-login.com/verify" >>, upi_ids |-> <<>>,
        phone_numbers |-> <<>>, bank_accounts |-> <<>>,
        topics |-> {"link"}, m |-> {},
        scam_type |-> "phishing_link", intel |-> {"link"}],
       \* Your case number is REF-2291.
       [id |-> "case",
        ledger |-> << <<"case_number", "number">>, <<"case_number", "-2291">> >>,
        links |-> <<>>, upi_ids |-> <<>>,
        phone_numbers |-> <<>>, bank_accounts |-> <<>>,
        topics |-> {"case_number", "phone"}, m |-> {"case_ref"},
        scam_type |-> "generic_scam", intel |-> {}] >>

-----------------------------------------------------------------------------
(* Specifications *)

Sessions == {"s1"}

NoCall == [path |-> "none"]

NoProbe == [op |-> "none", calls |-> 0]

Manager(sid) == state_managers[sid]

-----------------------------------------------------------------------------
(* Spec: messages of a session are processed one after the other by        *)
(* HoneypotHandler.process_message.  The caller sends with each message    *)
(* the conversation so far: the earlier messages and the replies it got.   *)

MaxTurns == 2

MaxDraw == 1

Draws == 0..MaxDraw

\* what the external generator does when called
Generated ==
    {[kind |-> "raise"], [kind |-> "reply", text |-> <<>>]}
        \cup {[kind |-> "reply", text |-> GeneratorReplies[i]] : i \in DOMAIN GeneratorReplies}

Init ==
    /\ llm_available \in BOOLEAN
    /\ state_managers = <<>>
    /\ session_states = <<>>
    /\ history = [sid \in Sessions |-> <<>>]
    /\ last_call = NoCall
    /\ probe = NoProbe

\* _get_or_create_state_manager with one state manager for all the sessions
_get_or_create_state_manager_shared(sid) ==
    IF DOMAIN state_managers # {}
    THEN state_managers[CHOOSE other \in DOMAIN state_managers : TRUE]
    ELSE DynamicStateManager

\* groq_handler._get_or_create_state_manager
_get_or_create_state_manager(sid) ==
    IF sid \in DOMAIN state_managers THEN state_managers[sid] ELSE DynamicStateManager

\* agent.get_or_create_session
get_or_create_session(sid) ==
    IF sid \in DOMAIN session_states THEN session_states[sid] ELSE SessionState

\* the turn counter of the state manager of a session, 0 while it has none
ManagerTurnCount(sid) ==
    IF sid \in DOMAIN state_managers THEN state_managers[sid].turn_count ELSE 0

\* honeypot.process_message up to the reply of agent.generate_response: the
\* session, the state manager of the session if the generator is available,
\* the reply and what was observed of the call
process_message(sid, scammer_message, generated, rnd, rnd_prompt, coin) ==
    LET conversation_history == history[sid]
        entry == [sender |-> "scammer", msg |-> scammer_message]
        intelligence == extract(Append(conversation_history, entry))
        session == [update_session(get_or_create_session(sid), intelligence) EXCEPT
                        !.total_messages = Len(conversation_history) + 2]
    IN  IF llm_available
        THEN Only({ [session |-> session,
                     mgr |-> <<llm.mgr>>,
                     reply |-> llm.out,
                     call |-> [path |-> llm.path, sid |-> sid, message |-> scammer_message.id,
                               reply |-> llm.out, candidate |-> llm.candidate,
                               avoided |-> llm.avoided, exit |-> llm.exit,
                               fired |-> llm.fired,
                               external_calls |-> llm.external_calls,
                               turn_count_before |-> ManagerTurnCount(sid),
                               skeletons_before |->
                                    _get_or_create_state_manager(sid).recent_skeletons,
                               emotion |-> llm.emotion,
                               next_cat |-> llm.next_cat,
                               next_tactic |-> llm.next_tactic]] :
                    llm \in {generate_response(
                                scammer_message, conversation_history,
                                _get_or_create_state_manager(sid), generated,
                                rnd, rnd_prompt, coin)} })
        ELSE Only({ [session |-> session,
                     mgr |-> <<>>,
                     reply |-> reply,
                     call |-> [path |-> "rule_based", sid |-> sid,
                               message |-> scammer_message.id,
                               reply |-> reply, candidate |-> <<>>, avoided |-> FALSE,
                               exit |-> "none", fired |-> {}, external_calls |-> 0,
                               turn_count_before |-> ManagerTurnCount(sid),
                               skeletons_before |-> <<>>]] :
                    reply \in {_get_response_for_scam_type(
                                    scammer_message.scam_type, session, rnd)} })

\* honeypot.process_message: the turn is added to the session and the caller
\* gets the reply
ProcessMessage(sid, scammer_message, generated, rnd, rnd_prompt, coin) ==
    \E done \in {process_message(sid, scammer_message, generated, rnd, rnd_prompt, coin)} :
        /\ state_managers' =
                IF done.mgr # <<>> THEN Put(state_managers, sid, done.mgr[1]) ELSE state_managers
        /\ session_states' = Put(session_states, sid, [done.session EXCEPT !.turns = @ + 1])
        /\ history' = [history EXCEPT ![sid] =
                            @ \o << [sender |-> "scammer", msg |-> scammer_message],
                                    [sender |-> "user", text |-> done.reply] >>]
        /\ last_call' = done.call
        /\ UNCHANGED <<llm_available, probe>>

Next ==
    \E sid \in Sessions, i \in DOMAIN ScammerMessages, generated \in Generated,
       rnd \in Draws, coin \in BOOLEAN :
        /\ Len(history[sid]) < 2 * MaxTurns
        /\ ProcessMessage(sid, ScammerMessages[i], generated, rnd, rnd, coin)

Spec == Init /\ [][Next]_vars

\* the replies that the caller got in a session, in order
EmittedReplies(sid) == [i \in 1..(Len(history[sid]) \div 2) |-> history[sid][2 * i].text]

\* the text has the value in full: a word of it, without blanks, - and +,
\* contains the normalised value
FullForm(text, value) == \E word \in Words(text) : Contains(clean(word), value)

\* in how many emitted replies of the session the value is in full
FullFormCount(sid, value) ==
    Cardinality({i \in DOMAIN EmittedReplies(sid) : FullForm(EmittedReplies(sid)[i], value)})

\* the normalised UPI ids, telephone numbers and account numbers that the
\* scammer's messages bring
FactValues ==
    UNION {{clean(ScammerMessages[i].ledger[j][2]) :
                j \in {k \in DOMAIN ScammerMessages[i].ledger :
                            ScammerMessages[i].ledger[k][1] \in {"upi", "phone", "bank_account"}}} :
           i \in DOMAIN ScammerMessages}

\* the call went through GroqHandler.generate_response
ThroughGenerator == last_call.path \in {"generator", "failure"}

\* C1: whatever the generator does (a reply, an empty reply, a raised failure,
\* or no generator at all), the reply that the caller gets is not empty, has at
\* most two sentences and has no forbidden phrase.
C1_ReplyIsShortAndSafe ==
    last_call.path # "none" =>
        /\ last_call.reply # <<>>
        /\ TextLen(last_call.reply) > 0
        /\ Len(last_call.reply) <= 2
        /\ "forbidden" \notin Markers(last_call.reply)

\* C2: when the external call raises, generate_response makes a local fallback
\* candidate, runs the guardrail pipeline on it, records the turn in the state
\* manager (turn counter plus one, reply tracked) and returns that reply from
\* the same call, after one external call only.
C2_FailureHandledLocally ==
    last_call.path = "failure" =>
        LET mgr == Manager(last_call.sid)
            turn == history[last_call.sid]
        IN  /\ last_call.external_calls = 1
            /\ last_call.candidate # <<>>
            /\ last_call.exit \in {"1", "1b", "1c", "1d", "2", "3", "4", "end"}
            /\ mgr.turn_count = last_call.turn_count_before + 1
            /\ mgr.recent_responses[Len(mgr.recent_responses)] = last_call.reply
            /\ _normalize_for_comparison(last_call.reply) \in mgr.response_patterns
            /\ turn[Len(turn)] = [sender |-> "user", text |-> last_call.reply]
            /\ last_call.reply # <<>>

\* C2 witness: the external call raised on the second message of a session
C2_Witness ==
    /\ last_call.path = "failure"
    /\ last_call.turn_count_before = 1
    /\ Manager(last_call.sid).turn_count = 2

\* C4: a normalised fact value is in full in at most one of the replies
\* emitted in a session, whichever branch made the reply.
C4_FullFormAtMostOnce ==
    \A sid \in Sessions : \A value \in FactValues : FullFormCount(sid, value) <= 1

\* C5: the echo count stored for a normalised value is at most 1 and is the
\* number of emitted replies that have the value in full.
C5_EchoCountIsFullFormCount ==
    \A sid \in DOMAIN state_managers : \A value \in FactValues :
        /\ EchoCount(Manager(sid), value) <= max_data_echo
        /\ EchoCount(Manager(sid), value) = FullFormCount(sid, value)

\* C9: no guardrail of _apply_post_guardrails ends the pipeline when it
\* replaces the candidate: the call runs to its end, where the skeleton of the
\* emitted reply is recorded.
C9_EveryGuardrailApplied ==
    ThroughGenerator =>
        LET stored == Manager(last_call.sid).recent_skeletons
        IN  /\ last_call.exit = "end"
            /\ stored # <<>>
            /\ stored[Len(stored)] = extract_response_skeleton(last_call.reply)

\* C10: the turn counter of the state manager of a session goes up by exactly
\* one with every processed message, on each of the three paths, and nothing
\* else changes it: it is the number of processed messages.
C10_TurnCounterCountsMessages ==
    \A sid \in Sessions : ManagerTurnCount(sid) = Len(history[sid]) \div 2

-----------------------------------------------------------------------------
(* SpecMonotony: three messages of a session with an available generator,  *)
(* the generator answering with replies of the same structure.             *)

MaxMonotonyTurns == 3

\* the messages without facts and with a UPI id
MonotonyMessages == {ScammerMessages[1], ScammerMessages[2]}

\* the three replies of one structure and a reply of another structure
MonotonyGenerated == {[kind |-> "reply", text |-> GeneratorReplies[i]] : i \in 1..4}

InitMonotony ==
    /\ llm_available = TRUE
    /\ state_managers = <<>>
    /\ session_states = <<>>
    /\ history = [sid \in Sessions |-> <<>>]
    /\ last_call = NoCall
    /\ probe = NoProbe

NextMonotony ==
    \E sid \in Sessions, scammer_message \in MonotonyMessages,
       generated \in MonotonyGenerated, rnd \in Draws, coin \in BOOLEAN :
        /\ Len(history[sid]) < 2 * MaxMonotonyTurns
        /\ ProcessMessage(sid, scammer_message, generated, rnd, rnd, coin)

SpecMonotony == InitMonotony /\ [][NextMonotony]_vars

\* C6: when the last two stored skeletons share at least 2 features and the
\* candidate of the turn has at least 2 of the shared features, the emitted
\* reply is not structurally repetitive with respect to those two skeletons.
C6_EmittedReplyBreaksMonotony ==
    LET stored == last_call.skeletons_before
        k == Len(stored)
        common_core == stored[k - 1] \cap stored[k]
    IN  (/\ ThroughGenerator
         /\ k >= 2
         /\ Cardinality(common_core) >= 2
         /\ Cardinality(extract_response_skeleton(last_call.candidate) \cap common_core) >= 2)
        => ~is_structurally_repetitive(
                [DynamicStateManager EXCEPT !.recent_skeletons = stored], last_call.reply)

-----------------------------------------------------------------------------
(* SpecTactic: the tactic and diversity operations of one state manager,   *)
(* called directly and in any order, as test_4fixes.py calls them.         *)

MaxApiCalls == 4

MaxApiDraw == 2

ApiDraws == 0..MaxApiDraw

\* the responses whose skeletons are recorded: the first, second and fourth
\* generator reply
ApiResponses == {GeneratorReplies[1], GeneratorReplies[2], GeneratorReplies[4]}

InitTactic ==
    /\ llm_available = TRUE
    /\ state_managers = [sid \in Sessions |-> DynamicStateManager]
    /\ session_states = <<>>
    /\ history = <<>>
    /\ last_call = NoCall
    /\ probe = NoProbe

ApiFrame == UNCHANGED <<llm_available, session_states, history, last_call>>

ApiRecordSkeleton(sid, response) ==
    /\ probe.calls < MaxApiCalls
    /\ state_managers' = [state_managers EXCEPT
            ![sid] = record_response_skeleton(@, response)]
    /\ probe' = [op |-> "record_response_skeleton", calls |-> probe.calls + 1]
    /\ ApiFrame

ApiNextTactic(sid, rnd) ==
    \E r \in {get_next_tactic(Manager(sid), rnd)} :
        /\ probe.calls < MaxApiCalls
        /\ state_managers' = [state_managers EXCEPT ![sid] = r.mgr]
        /\ probe' = [op |-> "get_next_tactic", calls |-> probe.calls + 1, out |-> r.out]
        /\ ApiFrame

ApiDiversityReplacement(sid, rnd) ==
    \E r \in {get_diversity_replacement(Manager(sid), rnd)} :
        /\ probe.calls < MaxApiCalls
        /\ state_managers' = [state_managers EXCEPT ![sid] = r.mgr]
        /\ probe' = [op |-> "get_diversity_replacement", calls |-> probe.calls + 1,
                     out |-> r.out]
        /\ ApiFrame

NextTactic ==
    \E sid \in Sessions :
        \/ \E response \in ApiResponses : ApiRecordSkeleton(sid, response)
        \/ \E rnd \in ApiDraws : ApiNextTactic(sid, rnd)
        \/ \E rnd \in ApiDraws : ApiDiversityReplacement(sid, rnd)

SpecTactic == InitTactic /\ [][NextTactic]_vars

\* C3: no two consecutive Tactic Records of used_tactics have the same
\* category, whatever the order of get_next_tactic and
\* get_diversity_replacement calls.
C3_NoConsecutiveCategory ==
    \A sid \in DOMAIN state_managers :
        \A i \in 1..(Len(Manager(sid).used_tactics) - 1) :
            Manager(sid).used_tactics[i].category # Manager(sid).used_tactics[i + 1].category

\* C7: every reply returned by get_diversity_replacement has a skeleton with
\* at least one feature that is in neither of the last two stored skeletons.
C7_ReplacementHasNewFeature ==
    \A sid \in DOMAIN state_managers :
        (probe.op = "get_diversity_replacement" /\ probe.out # <<>>)
            => extract_response_skeleton(probe.out) \ RecentFeatures(Manager(sid)) # {}

-----------------------------------------------------------------------------
(* SpecSkeleton: is_structurally_repetitive applied to every list of at    *)
(* most two stored skeletons and every candidate skeleton over the first   *)
(* NumProbeFeatures features.                                               *)

NumProbeFeatures == 5

ProbeSkeletons == SUBSET {FeatureOrder[i] : i \in 1..NumProbeFeatures}

ProbeStored ==
    {<<>>} \cup {<<a>> : a \in ProbeSkeletons}
           \cup {<<a, b>> : a \in ProbeSkeletons, b \in ProbeSkeletons}

InitSkeleton ==
    /\ llm_available = TRUE
    /\ state_managers = <<>>
    /\ session_states = <<>>
    /\ history = <<>>
    /\ last_call = NoCall
    /\ probe \in {[op |-> "input", calls |-> 0, stored |-> s, cand |-> c, out |-> FALSE] :
                    s \in ProbeStored, c \in ProbeSkeletons}

ApiIsRepetitive ==
    /\ probe.op = "input"
    /\ probe' = [probe EXCEPT
            !.op = "is_structurally_repetitive",
            !.calls = 1,
            !.out = is_structurally_repetitive(
                        [DynamicStateManager EXCEPT !.recent_skeletons = probe.stored],
                        <<Snt({"x"}, probe.cand, <<>>, 1)>>)]
    /\ UNCHANGED <<llm_available, state_managers, session_states, history, last_call>>

NextSkeleton == ApiIsRepetitive

SpecSkeleton == InitSkeleton /\ [][NextSkeleton]_vars

\* |C & X| / |C | X| >= num / den, false when both are empty
Jaccard(C, X, num, den) ==
    /\ C \cup X # {}
    /\ Cardinality(C \cap X) * den >= num * Cardinality(C \cup X)

\* the documented rules on the last two stored skeletons A, B and the
\* candidate skeleton C
DocumentedRule(A, B, C) ==
    \/ Cardinality(A \cap B) >= 2 /\ Cardinality(C \cap A \cap B) >= 2
    \/ Jaccard(C, A, 4, 5) /\ Jaccard(C, B, 1, 2)
    \/ Jaccard(C, B, 4, 5) /\ Jaccard(C, A, 1, 2)
    \/ Cardinality(C \cap A \cap B) >= 2

\* C8: is_structurally_repetitive returns true exactly when at least two
\* skeletons are stored and one of the three documented rules fires on the
\* last two stored skeletons and the candidate skeleton.
C8_RepetitiveExactlyDocumented ==
    probe.op = "is_structurally_repetitive" =>
        (probe.out <=> /\ Len(probe.stored) >= 2
                       /\ DocumentedRule(probe.stored[Len(probe.stored) - 1],
                                         probe.stored[Len(probe.stored)], probe.cand))

\* C8 witness: the function answered true on the overlap rule alone
C8_Witness ==
    /\ probe.op = "is_structurally_repetitive"
    /\ probe.out
    /\ Cardinality(probe.cand \cap probe.stored[1] \cap probe.stored[2]) < 2

-----------------------------------------------------------------------------
(* SpecEmotion: update_turn called directly on the state manager of a      *)
(* session, turn after turn.                                               *)

MaxEmotionTurns == 12

\* the messages without facts and with a UPI id
EmotionMessages == {ScammerMessages[1], ScammerMessages[2]}

\* the replies recorded with the turns
TurnReplies == {GeneratorReplies[4], GeneratorReplies[5]}

InitEmotion ==
    /\ llm_available = TRUE
    /\ state_managers = [sid \in Sessions |-> DynamicStateManager]
    /\ session_states = <<>>
    /\ history = <<>>
    /\ last_call = NoCall
    /\ probe = NoProbe

\* state_mgr.update_turn(scammer_message, generated_response); probe keeps the
\* state manager as it was before the call
ApiUpdateTurn(sid, scammer_message, generated_response) ==
    /\ state_managers' = [state_managers EXCEPT
            ![sid] = update_turn(@, scammer_message, generated_response)]
    /\ probe' = [op |-> "update_turn", calls |-> probe.calls + 1,
                 message |-> scammer_message, before |-> Manager(sid)]
    /\ ApiFrame

NextEmotion ==
    \E sid \in Sessions, scammer_message \in EmotionMessages,
       generated_response \in TurnReplies :
        /\ Manager(sid).turn_count < MaxEmotionTurns
        /\ ApiUpdateTurn(sid, scammer_message, generated_response)

SpecEmotion == InitEmotion /\ [][NextEmotion]_vars

\* state_manager.EmotionalState, in the order of the progression
EmotionalState == <<"high_anxiety", "technical_confusion", "frustration", "suspicion">>

\* the place of an emotional state in the progression
EmotionRank(emotion) == CHOOSE i \in DOMAIN EmotionalState : EmotionalState[i] = emotion

\* C11: after every update_turn the emotional state is the one that the
\* thresholds give to the turn counter (high_anxiety for 1..3,
\* technical_confusion for 4..7, frustration for 8..10, suspicion from 11 on),
\* and along a session it never moves back to an earlier state.
C11_EmotionFollowsThresholds ==
    \A sid \in DOMAIN state_managers :
        probe.op = "update_turn" =>
            /\ Manager(sid).current_emotion =
                    (CASE Manager(sid).turn_count \in 1..3 -> "high_anxiety"
                       [] Manager(sid).turn_count \in 4..7 -> "technical_confusion"
                       [] Manager(sid).turn_count \in 8..10 -> "frustration"
                       [] OTHER -> "suspicion")
            /\ EmotionRank(Manager(sid).current_emotion)
                    >= EmotionRank(probe.before.current_emotion)
            /\ \A i \in 1..(Len(Manager(sid).emotion_history) - 1) :
                    EmotionRank(Manager(sid).emotion_history[i][2])
                        <= EmotionRank(Manager(sid).emotion_history[i + 1][2])

\* C11 witness: the eleventh turn moved the state from frustration to suspicion
C11_Witness ==
    /\ probe.op = "update_turn"
    /\ \E sid \in DOMAIN state_managers :
            /\ Manager(sid).turn_count = 11
            /\ Manager(sid).current_emotion = "suspicion"
            /\ probe.before.current_emotion = "frustration"

-----------------------------------------------------------------------------
(* SpecLedger: update_turn called directly with messages that carry facts, *)
(* some of them the same facts again.                                      *)

MaxLedgerTurns == 4

\* Call me back on 9876543210 right now.
BarePhoneMessage ==
    [id |-> "bare_phone",
     ledger |-> << <<"phone", "9876543210">>, <<"bank_account", "9876543210">> >>,
     links |-> <<>>, upi_ids |-> <<>>,
     phone_numbers |-> << "+919876543210" >>, bank_accounts |-> <<>>,
     topics |-> {"phone"}, m |-> {},
     scam_type |-> "generic_scam", intel |-> {"phone"}]

LedgerMessages ==
    {ScammerMessages[1], ScammerMessages[2], ScammerMessages[3], BarePhoneMessage}

\* the messages whose only number is a 10-digit mobile number
MobileOnlyMessages == {ScammerMessages[3], BarePhoneMessage}

NextLedger ==
    \E sid \in Sessions, scammer_message \in LedgerMessages,
       generated_response \in TurnReplies :
        /\ Manager(sid).turn_count < MaxLedgerTurns
        /\ ApiUpdateTurn(sid, scammer_message, generated_response)

SpecLedger == InitEmotion /\ [][NextLedger]_vars

\* the values of the facts of a message
MessageValues(message) ==
    {_extract_facts_from_message(message)[i][2] :
        i \in DOMAIN _extract_facts_from_message(message)}

\* the kinds of the facts of a message
MessageKinds(message) ==
    {_extract_facts_from_message(message)[i][1] :
        i \in DOMAIN _extract_facts_from_message(message)}

\* C12: a value fed again on a later turn still has exactly one ledger entry
\* (the ledger grows by the values that were not in it, by nothing else), and
\* the kind of every value fed so far is not among the missing facts.
C12_OneEntryPerValue ==
    \A sid \in DOMAIN state_managers :
        probe.op = "update_turn" =>
            /\ DOMAIN Manager(sid).extracted_facts =
                    (DOMAIN probe.before.extracted_facts) \cup MessageValues(probe.message)
            /\ Cardinality(DOMAIN Manager(sid).extracted_facts) =
                    Cardinality(DOMAIN probe.before.extracted_facts)
                        + Cardinality(MessageValues(probe.message)
                                        \ DOMAIN probe.before.extracted_facts)
            /\ \A kind \in MessageKinds(probe.message) :
                    kind \notin Range(get_missing_facts(Manager(sid)))
            /\ \A value \in DOMAIN Manager(sid).extracted_facts :
                    Manager(sid).extracted_facts[value][1]
                        \notin Range(get_missing_facts(Manager(sid)))

\* C12 witness: a message repeated a value that the ledger already had
C12_Witness ==
    /\ probe.op = "update_turn"
    /\ MessageValues(probe.message) # {}
    /\ MessageValues(probe.message) \subseteq DOMAIN probe.before.extracted_facts
    /\ \E sid \in DOMAIN state_managers :
            /\ Manager(sid).turn_count >= 3
            /\ Cardinality(DOMAIN Manager(sid).extracted_facts) = 1

\* C13: the turn stored with a value is the turn on which it was first seen:
\* a message that repeats the value changes neither its turn nor its kind.
C13_FirstSeenTurnWins ==
    \A sid \in DOMAIN state_managers :
        probe.op = "update_turn" =>
            \A value \in DOMAIN probe.before.extracted_facts :
                Manager(sid).extracted_facts[value] = probe.before.extracted_facts[value]

\* the place of a kind in the documented list of required kinds
KindPosition(kind) ==
    CHOOSE i \in 1..5 : <<"upi", "bank_account", "phone", "link", "case_number">>[i] = kind

\* C14: get_missing_facts is the fixed list of five kinds without the kinds
\* received, in the order of the list; all five on a fresh session; a kind
\* that left the result is not in it later.
C14_MissingFactsOrderedDifference ==
    \A sid \in DOMAIN state_managers :
        /\ Range(get_missing_facts(Manager(sid))) =
                {"upi", "bank_account", "phone", "link", "case_number"}
                    \ Manager(sid).received_fact_types
        /\ \A i, j \in DOMAIN get_missing_facts(Manager(sid)) :
                i < j => KindPosition(get_missing_facts(Manager(sid))[i])
                            < KindPosition(get_missing_facts(Manager(sid))[j])
        /\ Manager(sid).turn_count = 0 =>
                get_missing_facts(Manager(sid)) =
                    <<"upi", "bank_account", "phone", "link", "case_number">>
        /\ probe.op = "update_turn" =>
                Range(get_missing_facts(Manager(sid)))
                    \subseteq Range(get_missing_facts(probe.before))

\* C14 witness: a turn took kinds out of the result and left others in it
C14_Witness ==
    /\ probe.op = "update_turn"
    /\ \E sid \in DOMAIN state_managers :
            /\ get_missing_facts(Manager(sid)) = <<"upi", "link", "case_number">>
            /\ get_missing_facts(probe.before) =
                    <<"upi", "bank_account", "phone", "link", "case_number">>

\* C15: a 10-digit mobile number in a message is a phone fact only: the turn
\* records no bank_account value and does not mark bank_account as received.
C15_MobileNumberIsPhoneOnly ==
    \A sid \in DOMAIN state_managers :
        (probe.op = "update_turn" /\ probe.message \in MobileOnlyMessages) =>
            /\ "phone" \in Manager(sid).received_fact_types
            /\ "bank_account" \in Manager(sid).received_fact_types
                    => "bank_account" \in probe.before.received_fact_types
            /\ \A value \in DOMAIN Manager(sid).extracted_facts :
                    Manager(sid).extracted_facts[value][1] = "bank_account"
                        => /\ value \in DOMAIN probe.before.extracted_facts
                           /\ probe.before.extracted_facts[value][1] = "bank_account"

-----------------------------------------------------------------------------
(* SpecMirror: mirror_and_verify called directly on the state manager of a *)
(* session.  probe.asked is the set of the values of the calls so far.     *)

MaxMirrorCalls == 4

MirrorKinds == {"upi", "phone", "weird"}

MirrorValues == {"scammer@fakebank", "+919876543210", "9876543210"}

InitMirror ==
    /\ llm_available = TRUE
    /\ state_managers = [sid \in Sessions |-> DynamicStateManager]
    /\ session_states = <<>>
    /\ history = <<>>
    /\ last_call = NoCall
    /\ probe = [op |-> "none", calls |-> 0, asked |-> {}]

\* state_mgr.mirror_and_verify(fact_type, fact_value)
ApiMirror(sid, fact_type, fact_value, rnd) ==
    \E r \in {mirror_and_verify(Manager(sid), fact_type, fact_value, rnd)} :
        /\ state_managers' = [state_managers EXCEPT ![sid] = r.mgr]
        /\ probe' = [op |-> "mirror_and_verify", calls |-> probe.calls + 1,
                     fact_type |-> fact_type, fact_value |-> fact_value,
                     out |-> r.out, earlier |-> probe.asked,
                     asked |-> probe.asked \cup {fact_value}]
        /\ ApiFrame

NextMirror ==
    \E sid \in Sessions, fact_type \in MirrorKinds,
       fact_value \in MirrorValues, rnd \in ApiDraws :
        /\ probe.calls < MaxMirrorCalls
        /\ ApiMirror(sid, fact_type, fact_value, rnd)

SpecMirror == InitMirror /\ [][NextMirror]_vars

\* C16: mirror_and_verify returns a mirror response on the first call for a
\* value and None on every later call for the same value.
C16_MirrorOncePerValue ==
    probe.op = "mirror_and_verify" =>
        /\ probe.fact_value \notin probe.earlier => probe.out # <<>>
        /\ probe.fact_value \in probe.earlier => probe.out = <<>>

\* C16 witness: a third call for a value, after calls for another value,
\* returned None
C16_Witness ==
    /\ probe.op = "mirror_and_verify"
    /\ probe.calls = MaxMirrorCalls
    /\ probe.fact_value \in probe.earlier
    /\ Cardinality(probe.earlier) = 2
    /\ probe.out = <<>>

-----------------------------------------------------------------------------
(* The categories of the Tactic Records, under SpecTactic *)

\* C17: the category of every Tactic Record in used_tactics, and
\* last_tactic_category once it is set, is one of confusion, skeptical and
\* slow_compliance.
C17_TacticCategoriesAreTheThree ==
    \A sid \in DOMAIN state_managers :
        /\ \A i \in DOMAIN Manager(sid).used_tactics :
                Manager(sid).used_tactics[i].category
                    \in {"confusion", "skeptical", "slow_compliance"}
        /\ Manager(sid).last_tactic_category
                \in {"None", "confusion", "skeptical", "slow_compliance"}

-----------------------------------------------------------------------------
(* SpecRotation: get_next_tactic called again and again on the state       *)
(* manager of a fresh session, until a pool of tactics is used up.  The    *)
(* first MaxVariedCalls calls draw freely; the later calls take the first  *)
(* candidate, which alternates two categories and exhausts one of them on  *)
(* the fifteenth call.  probe.returned is the list of the texts returned.  *)

MaxRotationCalls == 15

MaxVariedCalls == 5

MaxTextDraw == 1

InitRotation ==
    /\ llm_available = TRUE
    /\ state_managers = [sid \in Sessions |-> DynamicStateManager]
    /\ session_states = <<>>
    /\ history = <<>>
    /\ last_call = NoCall
    /\ probe = [op |-> "none", calls |-> 0, returned |-> <<>>]

\* state_mgr.get_next_tactic()
ApiRotateTactic(sid, rnd_category, rnd_text) ==
    \E r \in {get_next_tactic_drawn(Manager(sid), rnd_category, rnd_text)} :
        /\ state_managers' = [state_managers EXCEPT ![sid] = r.mgr]
        /\ probe' = [op |-> "get_next_tactic", calls |-> probe.calls + 1,
                     out |-> r.out, before |-> Manager(sid),
                     returned |-> Append(probe.returned, r.out.text)]
        /\ ApiFrame

NextRotation ==
    \E sid \in Sessions, rnd_category \in ApiDraws, rnd_text \in 0..MaxTextDraw :
        /\ probe.calls < MaxRotationCalls
        /\ probe.calls >= MaxVariedCalls => (rnd_category = 0 /\ rnd_text = 0)
        /\ ApiRotateTactic(sid, rnd_category, rnd_text)

SpecRotation == InitRotation /\ [][NextRotation]_vars

\* C18: get_next_tactic returns no text that is already in used_tactics
\* unless every text of the pool of the chosen category has been used, and
\* never the text of the Tactic Record just before; the first nine calls on
\* a fresh session return nine different texts.
C18_TacticTextsNotRepeated ==
    probe.op = "get_next_tactic" =>
        /\ (\E i \in DOMAIN probe.before.used_tactics :
                probe.before.used_tactics[i].text = probe.out.text)
            => \A k \in DOMAIN tactic_map(probe.out.category) :
                    \E i \in DOMAIN probe.before.used_tactics :
                        probe.before.used_tactics[i].text
                            = tactic_map(probe.out.category)[k]
        /\ probe.before.used_tactics # <<>>
            => probe.out.text
                    # probe.before.used_tactics[Len(probe.before.used_tactics)].text
        /\ \A i, j \in (DOMAIN probe.returned) \cap (1..9) :
                i # j => probe.returned[i] # probe.returned[j]

\* C18 witness: after nine calls with nine different texts, the fifteenth
\* call found its pool used up and returned a text used before
C18_Witness ==
    /\ probe.op = "get_next_tactic"
    /\ probe.calls = MaxRotationCalls
    /\ Cardinality({probe.returned[i] : i \in 1..9}) = 9
    /\ \E i \in DOMAIN probe.before.used_tactics :
            probe.before.used_tactics[i].text = probe.out.text

-----------------------------------------------------------------------------
(* SpecAvoid: _track_response and should_avoid_response called directly on *)
(* the state manager of a session.  probe.tracked is the list of all the   *)
(* replies tracked so far.                                                  *)

MaxTracked == 5

\* the replies tracked and the candidates asked about
AvoidTexts ==
    { \* i need help now
      <<Phrase({"i", "need", "help", "now"}, {}, <<>>, 15)>>,
      \* i need help
      <<Phrase({"i", "need", "help"}, {}, <<>>, 11)>>,
      \* i need help now please
      <<Phrase({"i", "need", "help", "now", "please"}, {}, <<>>, 22)>>,
      \* need help now
      <<Phrase({"need", "help", "now"}, {}, <<>>, 13)>>,
      \* help now
      <<Phrase({"help", "now"}, {}, <<>>, 8)>>,
      \* please wait
      <<Phrase({"please", "wait"}, {}, <<>>, 11)>> }

InitAvoid ==
    /\ llm_available = TRUE
    /\ state_managers = [sid \in Sessions |-> DynamicStateManager]
    /\ session_states = <<>>
    /\ history = <<>>
    /\ last_call = NoCall
    /\ probe = [op |-> "none", tracked |-> <<>>]

\* state_mgr._track_response(response)
ApiTrackResponse(sid, response) ==
    /\ Len(probe.tracked) < MaxTracked
    /\ state_managers' = [state_managers EXCEPT ![sid] = _track_response(@, response)]
    /\ probe' = [op |-> "_track_response", tracked |-> Append(probe.tracked, response)]
    /\ ApiFrame

\* state_mgr.should_avoid_response(candidate_response)
ApiShouldAvoid(sid, candidate_response) ==
    /\ probe' = [op |-> "should_avoid_response", tracked |-> probe.tracked,
                 candidate |-> candidate_response,
                 out |-> should_avoid_response(Manager(sid), candidate_response)]
    /\ UNCHANGED state_managers
    /\ ApiFrame

NextAvoid ==
    \E sid \in Sessions, response \in AvoidTexts :
        \/ ApiTrackResponse(sid, response)
        \/ ApiShouldAvoid(sid, response)

SpecAvoid == InitAvoid /\ [][NextAvoid]_vars

\* the normalized prefix of the candidate is the one of a reply tracked earlier
PrefixSeenBefore ==
    \E i \in DOMAIN probe.tracked :
        _normalize_for_comparison(probe.tracked[i])
            = _normalize_for_comparison(probe.candidate)

\* the number of words shared by the candidate and the tracked reply i, and the
\* number of words of the two together
SharedWords(i) == Cardinality(Words(probe.candidate) \cap Words(probe.tracked[i]))

AllWords(i) == Cardinality(Words(probe.candidate) \cup Words(probe.tracked[i]))

\* C19 as stated: should_avoid_response is true exactly when the normalized
\* prefix of the candidate was seen before or the Jaccard similarity with one
\* of the last 3 stored replies is at least 0.70.
C19_AvoidAtSeventyPercent ==
    probe.op = "should_avoid_response" =>
        (probe.out <=>
            \/ PrefixSeenBefore
            \/ \E i \in DOMAIN probe.tracked :
                    /\ i > Len(probe.tracked) - 3
                    /\ 100 * SharedWords(i) >= 70 * AllWords(i))

\* C19 amended: should_avoid_response is true exactly when the normalized
\* prefix of the candidate was seen before or the Jaccard similarity with one
\* of the last 3 stored replies is strictly above 0.75.
C19_AvoidAboveThreeQuarters ==
    probe.op = "should_avoid_response" =>
        (probe.out <=>
            \/ PrefixSeenBefore
            \/ \E i \in DOMAIN probe.tracked :
                    /\ i > Len(probe.tracked) - 3
                    /\ 100 * SharedWords(i) > 75 * AllWords(i))

\* C19 witness: a candidate with another prefix than every tracked reply is
\* avoided for its similarity of 0.8 with one of the last 3 replies, after
\* more than 3 replies were tracked
C19_Witness ==
    /\ probe.op = "should_avoid_response"
    /\ probe.out
    /\ ~PrefixSeenBefore
    /\ Len(probe.tracked) > 3
    /\ \E i \in DOMAIN probe.tracked : 5 * SharedWords(i) = 4 * AllWords(i)

-----------------------------------------------------------------------------
(* The stored skeletons and the emitted replies, under Spec *)

\* the skeletons stored for a session: none when it has no state manager
StoredSkeletons(sid) ==
    IF sid \in DOMAIN state_managers THEN Manager(sid).recent_skeletons ELSE <<>>

\* the skeletons of the last k of the replies
LastSkeletons(replies, k) ==
    [i \in 1..k |-> extract_response_skeleton(replies[Len(replies) - k + i])]

\* C20: after every processed turn recent_skeletons holds exactly the
\* skeletons of the last min(4, n) replies emitted in the session, in the
\* order of emission, whichever guardrail branch produced them.
C20_SkeletonsOfLastFourReplies ==
    \A sid \in Sessions :
        StoredSkeletons(sid) =
            LastSkeletons(EmittedReplies(sid), Min(4, Len(history[sid]) \div 2))

-----------------------------------------------------------------------------
(* The tracked replies and the emitted replies, under Spec *)

\* the replies stored for a session: none when it has no state manager
StoredResponses(sid) ==
    IF sid \in DOMAIN state_managers THEN Manager(sid).recent_responses ELSE <<>>

\* the last k of the replies
LastReplies(replies, k) == [i \in 1..k |-> replies[Len(replies) - k + i]]

\* C21: after every processed message recent_responses holds exactly the last
\* min(6, n) replies emitted in the session, in the order of emission, and
\* never more than 6.
C21_ResponsesOfLastSixReplies ==
    \A sid \in Sessions :
        /\ Len(StoredResponses(sid)) <= 6
        /\ StoredResponses(sid) =
                LastReplies(EmittedReplies(sid), Min(6, Len(history[sid]) \div 2))

-----------------------------------------------------------------------------
(* SpecCounter: record_response_skeleton called directly on the state      *)
(* manager of a session, with replies of five different structures.        *)

MaxRecorded == 5

\* the replies whose skeletons are recorded
SkeletonTexts ==
    { \* Okay, one minute.
      <<Snt({"okay,", "one", "minute."}, {}, <<>>, 17)>>,
      \* Which button do I press?
      <<Snt({"which", "button", "do", "i", "press?"}, {"confusion"}, <<>>, 24)>>,
      \* You said the number ending 3210, but what if I type it wrong?
      <<Snt({"you", "said", "the", "number", "ending", "3210,", "but", "what", "if",
             "i", "type", "it", "wrong?"},
            {"data_ref", "what_if", "number_word"}, <<>>, 61)>>,
      \* You said the number ending 3210, but what if I type it wrong, will my
      \* account get locked?
      <<Snt({"you", "said", "the", "number", "ending", "3210,", "but", "what", "if",
             "i", "type", "it", "wrong,", "will", "my", "account", "get", "locked?"},
            {"data_ref", "what_if", "fear_lock", "number_word", "account_word"},
            <<>>, 89)>>,
      \* I'm so scared, you said the number ending 3210, but what if I type it
      \* wrong, will my account get locked?
      <<Snt({"i'm", "so", "scared,", "you", "said", "the", "number", "ending", "3210,",
             "but", "what", "if", "i", "type", "it", "wrong,", "will", "my", "account",
             "get", "locked?"},
            {"panic", "data_ref", "what_if", "fear_lock", "number_word", "account_word"},
            <<>>, 104)>> }

\* state_mgr.record_response_skeleton(response); probe keeps the state manager
\* as it was before the call
ApiCountSkeleton(sid, response) ==
    /\ probe.calls < MaxRecorded
    /\ state_managers' = [state_managers EXCEPT
            ![sid] = record_response_skeleton(@, response)]
    /\ probe' = [op |-> "record_response_skeleton", calls |-> probe.calls + 1,
                 response |-> response, before |-> Manager(sid)]
    /\ ApiFrame

NextCounter ==
    \E sid \in Sessions, response \in SkeletonTexts : ApiCountSkeleton(sid, response)

SpecCounter == InitEmotion /\ [][NextCounter]_vars

\* the skeleton recorded by the call and the one stored just before it
NewSkeleton == extract_response_skeleton(probe.response)

PrecedingSkeleton == probe.before.recent_skeletons[Len(probe.before.recent_skeletons)]

\* C22 as stated: with a skeleton stored before the call, the counter is
\* reset to 0 when the Jaccard overlap of the new skeleton and the preceding
\* one is below 0.70 and goes up by one otherwise, equal skeletons included;
\* it is never negative.
C22_MonotoneCountFollowsOverlap ==
    \A sid \in DOMAIN state_managers :
        (probe.op = "record_response_skeleton" /\ probe.before.recent_skeletons # <<>>) =>
            /\ Manager(sid).consecutive_monotone_count >= 0
            /\ Manager(sid).consecutive_monotone_count =
                    IF \/ NewSkeleton = PrecedingSkeleton
                       \/ /\ NewSkeleton \cup PrecedingSkeleton # {}
                          /\ 10 * Cardinality(NewSkeleton \cap PrecedingSkeleton)
                                >= 7 * Cardinality(NewSkeleton \cup PrecedingSkeleton)
                    THEN probe.before.consecutive_monotone_count + 1
                    ELSE 0

\* C22 amended: with a skeleton stored before the call, the counter goes up
\* by one when the new skeleton and the preceding one both have features and
\* their Jaccard overlap is at least 0.70, and is reset to 0 otherwise, also
\* when both are without features; without a stored skeleton it is left as it
\* is; it is never negative.
C22_MonotoneCountOfNonEmptySkeletons ==
    \A sid \in DOMAIN state_managers :
        probe.op = "record_response_skeleton" =>
            /\ Manager(sid).consecutive_monotone_count >= 0
            /\ Manager(sid).consecutive_monotone_count =
                    IF probe.before.recent_skeletons = <<>>
                    THEN probe.before.consecutive_monotone_count
                    ELSE IF /\ NewSkeleton # {}
                            /\ PrecedingSkeleton # {}
                            /\ 10 * Cardinality(NewSkeleton \cap PrecedingSkeleton)
                                    >= 7 * Cardinality(NewSkeleton \cup PrecedingSkeleton)
                         THEN probe.before.consecutive_monotone_count + 1
                         ELSE 0

\* C22 witness: with four skeletons stored, a skeleton of four features after
\* one of three of them took the counter from 1 to 2
C22_Witness ==
    /\ probe.op = "record_response_skeleton"
    /\ Len(probe.before.recent_skeletons) = 4
    /\ Cardinality(NewSkeleton) = 4
    /\ Cardinality(PrecedingSkeleton) = 3
    /\ probe.before.consecutive_monotone_count = 1
    /\ \E sid \in DOMAIN state_managers : Manager(sid).consecutive_monotone_count = 2

-----------------------------------------------------------------------------
(* SpecTopics: update_turn called directly with messages of different      *)
(* topics and messages without a topic.                                    *)

MaxTopicTurns == 4

TopicMessages == Range(ScammerMessages) \cup {BarePhoneMessage}

NextTopics ==
    \E sid \in Sessions, scammer_message \in TopicMessages,
       generated_response \in TurnReplies :
        /\ Manager(sid).turn_count < MaxTopicTurns
        /\ ApiUpdateTurn(sid, scammer_message, generated_response)

SpecTopics == InitEmotion /\ [][NextTopics]_vars

\* C23: a message with a set T of topics other than unknown makes T the
\* active set, without the topics that were active, and adds the topics that
\* were active and are not in T to previous_topics; a message of unknown
\* topic changes neither set; unknown is never an active topic.
C23_ActiveTopicsReplaced ==
    \A sid \in DOMAIN state_managers :
        /\ "unknown" \notin Manager(sid).active_topics
        /\ probe.op = "update_turn" =>
                IF _detect_topics(probe.message) = {"unknown"}
                THEN /\ Manager(sid).active_topics = probe.before.active_topics
                     /\ Manager(sid).previous_topics = probe.before.previous_topics
                ELSE /\ Manager(sid).active_topics = _detect_topics(probe.message)
                     /\ Manager(sid).previous_topics =
                            probe.before.previous_topics
                                \cup (probe.before.active_topics
                                        \ _detect_topics(probe.message))

\* C23 witness: of two active topics one stays active and the other is
\* archived
C23_Witness ==
    /\ probe.op = "update_turn"
    /\ probe.before.active_topics \cap _detect_topics(probe.message) # {}
    /\ \E sid \in DOMAIN state_managers :
            /\ Manager(sid).previous_topics \ probe.before.previous_topics # {}
            /\ Manager(sid).active_topics # probe.before.active_topics

-----------------------------------------------------------------------------
(* SpecPayment: messages without payment words, an available generator     *)
(* that answers with payment words, and draws that reach every candidate   *)
(* of the fallback.                                                        *)

MaxPaymentTurns == 2

MaxPaymentDraw == 7

\* the messages without facts and with a telephone number
PaymentMessages == {ScammerMessages[1], ScammerMessages[3]}

\* the generator replies with payment words, and one without
PaymentGenerated ==
    {[kind |-> "reply", text |-> GeneratorReplies[i]] :
        i \in {j \in DOMAIN GeneratorReplies :
                    j = 4 \/ "pay_topic" \in Markers(GeneratorReplies[j])}}

InitPayment ==
    /\ llm_available = TRUE
    /\ state_managers = <<>>
    /\ session_states = <<>>
    /\ history = [sid \in Sessions |-> <<>>]
    /\ last_call = NoCall
    /\ probe = NoProbe

NextPayment ==
    \E sid \in Sessions, scammer_message \in PaymentMessages,
       generated \in PaymentGenerated, rnd \in 0..MaxPaymentDraw, coin \in BOOLEAN :
        /\ Len(history[sid]) < 2 * MaxPaymentTurns
        /\ ProcessMessage(sid, scammer_message, generated, rnd, rnd, coin)

SpecPayment == InitPayment /\ [][NextPayment]_vars

\* the sender has used payment, fee or UPI words in a message of the session
SenderIntroducedPayment(sid) ==
    \E i \in DOMAIN history[sid] :
        /\ history[sid][i].sender = "scammer"
        /\ \/ "pay_words" \in history[sid][i].msg.m
           \/ history[sid][i].msg.upi_ids # <<>>

\* C24: a candidate with payment or UPI words, in a conversation where the
\* sender has used none, is replaced, and the reply emitted for the turn has
\* no payment or UPI words.
C24_NoPaymentWordsBeforeSender ==
    (/\ ThroughGenerator
     /\ "pay_topic" \in Markers(last_call.candidate)
     /\ ~SenderIntroducedPayment(last_call.sid))
        => /\ "1" \in last_call.fired
           /\ "pay_topic" \notin Markers(last_call.reply)

-----------------------------------------------------------------------------
(* SpecPersist: a session in which a reply mentions a case and the sender  *)
(* then ignores the request, answers it or changes the topic.  The draws   *)
(* take the first candidate and skip the optional bait.                    *)

MaxPersistTurns == 4

\* the messages that ignore the request, that change the topic and that
\* give a reference number
PersistMessages == {ScammerMessages[1], ScammerMessages[2], ScammerMessages[5]}

\* a generator reply that mentions a case, and one that does not
PersistGenerated ==
    { \* Which case is this about, sir?
      [kind |-> "reply",
       text |-> <<Snt({"about,", "case", "is", "sir?", "this", "which"}, {"case_word"},
                      << <<"case_number", "is">> >>, 30)>>],
      [kind |-> "reply", text |-> GeneratorReplies[4]] }

NextPersist ==
    \E sid \in Sessions, scammer_message \in PersistMessages,
       generated \in PersistGenerated :
        /\ Len(history[sid]) < 2 * MaxPersistTurns
        /\ ProcessMessage(sid, scammer_message, generated, 0, 0, FALSE)

SpecPersist == InitPayment /\ [][NextPersist]_vars

\* the reply i of the session is the persistence reply of guardrail 1d
IsPersistReply(sid, i) ==
    /\ i \in DOMAIN EmittedReplies(sid)
    /\ EmittedReplies(sid)[i] = _truncate_to_two_sentences(case_persist_reply)

\* C25: the persistence reply for the case or reference number is emitted on
\* at most 2 consecutive turns; on the turn after two of them guardrail 1d
\* does not return and the pipeline goes on to the later checks.
C25_PersistAtMostTwice ==
    \A sid \in Sessions :
        /\ \A i \in DOMAIN EmittedReplies(sid) :
                ~(IsPersistReply(sid, i) /\ IsPersistReply(sid, i + 1)
                    /\ IsPersistReply(sid, i + 2))
        /\ (/\ ThroughGenerator
            /\ last_call.sid = sid
            /\ IsPersistReply(sid, Len(history[sid]) \div 2 - 2)
            /\ IsPersistReply(sid, Len(history[sid]) \div 2 - 1))
                => last_call.exit \in {"1", "1b", "1c", "2", "3", "4", "end"}

\* C25 witness: after two persistence replies in a row the sender ignored the
\* request once more and the call ran past guardrail 1d
C25_Witness ==
    /\ ThroughGenerator
    /\ last_call.message = "otp"
    /\ last_call.exit \in {"2", "3", "4", "end"}
    /\ IsPersistReply(last_call.sid, Len(history[last_call.sid]) \div 2 - 2)
    /\ IsPersistReply(last_call.sid, Len(history[last_call.sid]) \div 2 - 1)

-----------------------------------------------------------------------------
(* SpecAck: direct calls of get_varied_ack_prefix on one state manager, for *)
(* a kind with a pool of four phrases and a kind without a pool.            *)

MaxAckCalls == 5

MaxAckDraw == 3

AckKinds == {"bank_account", "case_number"}

AckValue == "9876543210"

\* state_mgr.get_varied_ack_prefix(fact_type, fact_value)
ApiAckPrefix(sid, fact_type, fact_value, rnd) ==
    \E r \in {get_varied_ack_prefix(Manager(sid), fact_type, fact_value, rnd)} :
        /\ state_managers' = [state_managers EXCEPT ![sid] = r.mgr]
        /\ probe' = [op |-> "get_varied_ack_prefix", calls |-> probe.calls + 1,
                     fact_type |-> fact_type, fact_value |-> fact_value,
                     out |-> r.out, before |-> Manager(sid)]
        /\ ApiFrame

NextAck ==
    \E sid \in Sessions, fact_type \in AckKinds, rnd \in 0..MaxAckDraw :
        /\ probe.calls < MaxAckCalls
        /\ ApiAckPrefix(sid, fact_type, AckValue, rnd)

SpecAck == InitEmotion /\ [][NextAck]_vars

\* the phrases returned before the observed call
ReturnedBefore == Range(probe.before.used_ack_phrases)

\* the phrases of the pool of the observed call that were not returned before
UnusedPhrases ==
    Range(prefix_map(probe.fact_type, probe.fact_value)) \ ReturnedBefore

\* C26: get_varied_ack_prefix never returns a phrase that it returned before
\* in the session, however many acknowledgments are requested for the same
\* kind and value.
C26_AckPhraseNeverRepeated ==
    probe.op = "get_varied_ack_prefix" => probe.out \notin ReturnedBefore

\* C26 as amended: get_varied_ack_prefix returns a phrase of the pool of the
\* kind; it is a phrase not returned before as long as the pool has one, and
\* every returned phrase is appended to used_ack_phrases.
C26_AckPhraseFreshWhileUnused ==
    probe.op = "get_varied_ack_prefix" =>
        /\ probe.out \in Range(prefix_map(probe.fact_type, probe.fact_value))
        /\ UnusedPhrases # {} => probe.out \in UnusedPhrases
        /\ \E sid \in Sessions :
                Manager(sid).used_ack_phrases
                    = Append(probe.before.used_ack_phrases, probe.out)

\* C26 witness: the fourth request for the account took the last unused phrase
C26_Witness ==
    /\ probe.op = "get_varied_ack_prefix"
    /\ probe.fact_type = "bank_account"
    /\ Cardinality(UnusedPhrases) = 1
    /\ probe.out \in UnusedPhrases

-----------------------------------------------------------------------------
(* SpecBait: six turns of a session in which the sender gives no fact, so  *)
(* that the bait step runs with a turn counter of 5.  The draws take the   *)
(* first candidate and random.random() is not below 0.7.                   *)

MaxBaitTurns == 6

\* generator replies of one sentence and of two sentences, none of which
\* asks for a missing kind
BaitGenerated ==
    { \* Okay sir, I am ready now.
      [kind |-> "reply",
       text |-> <<Snt({"am", "i", "now.", "okay", "ready", "sir,"}, {}, <<>>, 25)>>],
      \* Please wait, I am finding my glasses.
      [kind |-> "reply",
       text |-> <<Snt({"am", "finding", "glasses.", "i", "my", "please", "wait,"}, {}, <<>>, 37)>>],
      [kind |-> "reply", text |-> GeneratorReplies[4]],
      [kind |-> "reply", text |-> GeneratorReplies[5]] }

NextBait ==
    \E sid \in Sessions, generated \in BaitGenerated :
        /\ Len(history[sid]) < 2 * MaxBaitTurns
        /\ ProcessMessage(sid, ScammerMessages[1], generated, 0, 0, FALSE)

SpecBait == InitPayment /\ [][NextBait]_vars

\* the kinds that are missing after the observed call
MissingKinds == Range(get_missing_facts(Manager(last_call.sid)))

\* the text asks for a missing kind, as guardrail 6 tests it
PushesForMissing(text) ==
    \/ "upi" \in MissingKinds /\ "push_upi" \in Markers(text)
    \/ "link" \in MissingKinds /\ "push_link" \in Markers(text)
    \/ "bank_account" \in MissingKinds /\ AccountThenNumber(text)

\* the text has a sentence of a bait for a missing kind
HasBaitClause(text) ==
    \E fact_type \in MissingKinds \cap Range(priority) :
        \E i \in DOMAIN baits(fact_type) :
            \E j \in DOMAIN baits(fact_type)[i], k \in DOMAIN text :
                text[k] = baits(fact_type)[i][j]

\* C27: on a turn whose turn counter is 5 or more, when a required kind is
\* missing and the reply that reaches the bait step does not ask for a missing
\* kind, the emitted reply has a bait clause for a missing kind.  (Stated for
\* the calls in which no other guardrail changed the reply.)
C27_BaitForcedFromTurnFive ==
    (/\ ThroughGenerator
     /\ last_call.exit = "end"
     /\ last_call.fired \subseteq {"6"}
     /\ last_call.turn_count_before >= 5
     /\ MissingKinds # {}
     /\ ~PushesForMissing(last_call.candidate))
        => HasBaitClause(last_call.reply)

-----------------------------------------------------------------------------
(* SpecStrategic: turns that bring a UPI id, a telephone number, a link or *)
(* a case number, and direct calls of get_strategic_bait in between.       *)

MaxStrategicCalls == 5

MaxStrategicDraw == 1

StrategicMessages ==
    {ScammerMessages[2], ScammerMessages[3], ScammerMessages[4], ScammerMessages[5]}

\* state_mgr.get_strategic_bait()
ApiStrategicBait(sid, rnd) ==
    /\ probe' = [op |-> "get_strategic_bait", calls |-> probe.calls + 1,
                 out |-> get_strategic_bait(Manager(sid), rnd), before |-> Manager(sid)]
    /\ UNCHANGED state_managers
    /\ ApiFrame

NextStrategic ==
    \E sid \in Sessions :
        /\ probe.calls < MaxStrategicCalls
        /\ \/ \E scammer_message \in StrategicMessages :
                    ApiUpdateTurn(sid, scammer_message, GeneratorReplies[4])
           \/ \E rnd \in 0..MaxStrategicDraw : ApiStrategicBait(sid, rnd)

SpecStrategic == InitEmotion /\ [][NextStrategic]_vars

\* get_missing_facts() at the observed call
MissingAtCall == get_missing_facts(probe.before)

\* C28: get_strategic_bait returns a bait for the first kind of
\* get_missing_facts() (in the order upi, bank_account, phone, link,
\* case_number) and None only when no required kind is missing.
C28_BaitForFirstMissingKind ==
    probe.op = "get_strategic_bait" =>
        /\ probe.out = <<>> <=> MissingAtCall = <<>>
        /\ MissingAtCall # <<>> =>
                /\ MissingAtCall[1] \in Range(priority)
                /\ probe.out \in Range(baits(MissingAtCall[1]))

\* C28 as amended: get_strategic_bait returns a bait for the first missing
\* kind in the order upi, link, bank_account, phone, and None when none of
\* these four kinds is missing, whether case_number is missing or not.
C28_BaitInPriorityOrder ==
    probe.op = "get_strategic_bait" =>
        LET missing == Range(MissingAtCall)
        IN  /\ probe.out = <<>>
                <=> missing \cap {"upi", "link", "bank_account", "phone"} = {}
            /\ "upi" \in missing => probe.out \in Range(baits_upi)
            /\ "upi" \notin missing /\ "link" \in missing
                    => probe.out \in Range(baits_link)
            /\ {"upi", "link"} \cap missing = {} /\ "bank_account" \in missing
                    => probe.out \in Range(baits_bank_account)
            /\ {"upi", "link", "bank_account"} \cap missing = {} /\ "phone" \in missing
                    => probe.out \in Range(baits_phone)

\* C28 witness: the UPI id is known, the account and the link are missing, and
\* the bait asks for the link
C28_Witness ==
    /\ probe.op = "get_strategic_bait"
    /\ "upi" \notin Range(MissingAtCall)
    /\ {"bank_account", "link"} \subseteq Range(MissingAtCall)
    /\ probe.out \in Range(baits_link)

-----------------------------------------------------------------------------
(* The guards of the excuses *)

\* C29: no emitted reply has a physical catastrophe excuse: a candidate that
\* has one is replaced by a process confusion stall, whichever other
\* guardrails fire.
C29_NoCatastropheExcuseEmitted ==
    \A sid \in Sessions :
        \A i \in DOMAIN EmittedReplies(sid) :
            "catastrophe" \notin Markers(EmittedReplies(sid)[i])


(* SpecExcuse: a session in which the generator uses the excuse that a page  *)
(* is not loading in several of its replies.  The draws take the first      *)
(* candidate and skip the optional bait.                                    *)

MaxExcuseTurns == 3

\* the messages with the blocked account, with the UPI id and with the link
ExcuseMessages == {ScammerMessages[1], ScammerMessages[2], ScammerMessages[4]}

\* two generator replies with 'not loading' and one without an excuse
ExcuseGenerated ==
    { \* The app is not loading on my phone. Which button do I press?
      [kind |-> "reply",
       text |-> <<Snt({"app", "is", "loading", "my", "not", "on", "phone.", "the"},
                      {"ex_app_is_not", "ex_not_loading", "link_action", "loading_claim"}, <<>>, 35),
                  Snt({"button", "do", "i", "press?", "which"}, {"confusion"}, <<>>, 24)>>],
      \* Sir, the page is still not loading. Can you wait one minute?
      [kind |-> "reply",
       text |-> <<Snt({"is", "loading.", "not", "page", "sir,", "still", "the"},
                      {"ex_not_loading", "link_action", "loading_claim"}, <<>>, 35),
                  Snt({"can", "minute?", "one", "wait", "you"}, {}, <<>>, 24)>>],
      [kind |-> "reply", text |-> GeneratorReplies[4]] }

NextExcuse ==
    \E sid \in Sessions, scammer_message \in ExcuseMessages,
       generated \in ExcuseGenerated :
        /\ Len(history[sid]) < 2 * MaxExcuseTurns
        /\ ProcessMessage(sid, scammer_message, generated, 0, 0, FALSE)

SpecExcuse == InitPayment /\ [][NextExcuse]_vars

\* in how many emitted replies of the session the excuse phrase is
ExcuseUses(sid, phrase) ==
    Cardinality({i \in DOMAIN EmittedReplies(sid) :
                    phrase \in Markers(EmittedReplies(sid)[i])})

\* C30: each of the tracked technical excuse phrases is in at most one emitted
\* reply of a session: a candidate that uses a phrase of an earlier reply
\* again is replaced by a stall.
C30_ExcusePhraseAtMostOnce ==
    \A sid \in Sessions :
        \A k \in DOMAIN excuse_phrases : ExcuseUses(sid, excuse_phrases[k]) <= 1

-----------------------------------------------------------------------------
(* SpecFallback: direct calls of _fallback_non_payment_reply with the state *)
(* manager of one session, for a sender that gave no fact and an empty      *)
(* history, until the pool of candidates is used up.                        *)

MaxFallbackCalls == 14

\* the draws take the first or the second of the candidates that are left
FallbackDraws == {0, 1}

\* the facts of a conversation whose only message is the first one
FallbackFacts == _extract_scammer_facts(ScammerMessages[1], <<>>)

\* the pool of candidates of the calls
FallbackPool == FallbackCandidates(FallbackFacts, <<>>)

\* self._fallback_non_payment_reply(scammer_facts, [], state_mgr); probe keeps
\* the replies returned so far, in order
ApiFallback(sid, rnd) ==
    \E r \in {_fallback_non_payment_reply(FallbackFacts, <<>>, Manager(sid), rnd)} :
        /\ state_managers' = [state_managers EXCEPT ![sid] = r.mgr]
        /\ probe' = [op |-> "_fallback_non_payment_reply", calls |-> probe.calls + 1,
                     out |-> r.out, before |-> Manager(sid),
                     returned |-> (IF probe.calls = 0 THEN <<>> ELSE probe.returned)
                                    \o <<r.out>>]
        /\ ApiFrame

NextFallback ==
    \E sid \in Sessions, rnd \in FallbackDraws :
        /\ probe.calls < MaxFallbackCalls
        /\ ApiFallback(sid, rnd)

SpecFallback == InitEmotion /\ [][NextFallback]_vars

\* every candidate of the pool was used before the observed call
PoolUsedUp ==
    /\ probe.op = "_fallback_non_payment_reply"
    /\ Range(FallbackPool) \subseteq probe.before.used_fallback_responses

\* the replies that the pool can give
PoolReplies == {_truncate_to_two_sentences(FallbackPool[i]) : i \in DOMAIN FallbackPool}

\* the call, among those before the observed one, that returned the reply last
\* (0: never)
LastUse(reply) ==
    LET uses == {0} \cup {i \in 1..(Len(probe.returned) - 1) : probe.returned[i] = reply}
    IN  CHOOSE last \in uses : \A i \in uses : i <= last

-----------------------------------------------------------------------------
(* SpecStall: direct calls of get_process_confusion_stall on the state     *)
(* manager of a fresh session, past the end of the pool of 18 stalls.      *)

MaxStallCalls == 19

\* the draws take the first, the second or the third of the stalls left
StallDraws == {0, 1, 2}

\* state_mgr.get_process_confusion_stall(); probe keeps the stalls returned
\* by the calls before
ApiStall(sid, rnd) ==
    \E r \in {get_process_confusion_stall(Manager(sid), rnd)} :
        /\ state_managers' = [state_managers EXCEPT ![sid] = r.mgr]
        /\ probe' = [op |-> "get_process_confusion_stall", calls |-> probe.calls + 1,
                     out |-> r.out,
                     earlier |-> IF probe.calls = 0 THEN {}
                                 ELSE probe.earlier \cup {probe.out}]
        /\ ApiFrame

NextStall ==
    \E sid \in Sessions, rnd \in StallDraws :
        /\ probe.calls < MaxStallCalls
        /\ ApiStall(sid, rnd)

SpecStall == InitEmotion /\ [][NextStall]_vars

\* C32: get_process_confusion_stall returns no stall that it returned before
\* in the session until all 18 stalls of the pool were returned: the first 18
\* calls of a fresh session return 18 different stalls of the pool.
C32_StallsDistinctUntilPoolUsed ==
    probe.op = "get_process_confusion_stall" =>
        /\ probe.out \in Range(all_stalls)
        /\ Cardinality(Range(all_stalls)) = 18
        /\ probe.calls <= 18 =>
                /\ probe.out \notin probe.earlier
                /\ Cardinality(probe.earlier \cup {probe.out}) = probe.calls

\* C32 witness: the 18th call returned the last stall of the pool
C32_Witness ==
    /\ probe.op = "get_process_confusion_stall"
    /\ probe.calls = 18
    /\ probe.earlier \cup {probe.out} = Range(all_stalls)

-----------------------------------------------------------------------------
(* SpecSessions: the turns of two sessions, interleaved in every order.    *)
(* The draws take the first candidate and skip the optional bait.          *)

MaxSessionTurns == 2

TwoSessions == {"s1", "s2"}

\* the messages with the blocked account and with the UPI id
SessionMessages == {ScammerMessages[1], ScammerMessages[2]}

\* two replies of the generator and its failure
SessionGenerated ==
    { [kind |-> "reply", text |-> GeneratorReplies[4]],
      [kind |-> "reply", text |-> GeneratorReplies[5]],
      [kind |-> "raise"] }

InitSessions ==
    /\ llm_available = TRUE
    /\ state_managers = <<>>
    /\ session_states = <<>>
    /\ history = [sid \in TwoSessions |-> <<>>]
    /\ last_call = NoCall
    /\ probe = NoProbe

NextSessions ==
    \E sid \in TwoSessions, scammer_message \in SessionMessages,
       generated \in SessionGenerated :
        /\ Len(history[sid]) < 2 * MaxSessionTurns
        /\ ProcessMessage(sid, scammer_message, generated, 0, 0, FALSE)

SpecSessions == InitSessions /\ [][NextSessions]_vars

\* C33: the state manager of a session is created once, on the first turn of
\* the session, and a turn of a session leaves the state manager of every
\* other session as it is, in every interleaving of the turns of the sessions.
C33_SessionsIndependent ==
    [][\A sid \in TwoSessions :
            /\ sid # last_call'.sid =>
                    /\ sid \in DOMAIN state_managers' <=> sid \in DOMAIN state_managers
                    /\ sid \in DOMAIN state_managers
                            => state_managers'[sid] = state_managers[sid]
            /\ sid = last_call'.sid =>
                    /\ sid \in DOMAIN state_managers'
                    /\ state_managers'[sid].turn_count = ManagerTurnCount(sid) + 1
                    /\ state_managers'[sid].turn_count = Len(history'[sid]) \div 2]_vars

\* C33 witness: both sessions have a state manager, the second turn of one
\* session came after the first turn of the other
C33_Witness ==
    /\ DOMAIN state_managers = TwoSessions
    /\ last_call.sid = "s1"
    /\ state_managers["s1"].turn_count = 2
    /\ state_managers["s2"].turn_count = 1
    /\ state_managers["s1"] # state_managers["s2"]

-----------------------------------------------------------------------------
(* The bookkeeping of the state manager *)

\* the replies that mirror a value, as guardrail 4 emits them
MirrorReplies(fact_value) ==
    {_truncate_to_two_sentences(mirror) :
        mirror \in {default_mirror(fact_value)}
                    \cup UNION {Range(mirror_map(fact_type, fact_value)) :
                                    fact_type \in {"upi", "phone", "link", "bank_account"}}}

\* C34: a value is in mirrored_data_points only if a reply that mirrors the
\* value was emitted to the sender in the session.
C34_MirroredOnlyIfEmitted ==
    \A sid \in Sessions \cap DOMAIN state_managers :
        \A fact_value \in Manager(sid).mirrored_data_points :
            \E i \in DOMAIN EmittedReplies(sid) :
                EmittedReplies(sid)[i] \in MirrorReplies(fact_value)


\* the kinds of the values that the ledger of a state manager holds
LedgerKinds(mgr) == {mgr.extracted_facts[value][1] : value \in DOMAIN mgr.extracted_facts}

\* C35: received_fact_types is the set of the kinds that are in the ledger
\* extracted_facts: a kind is marked as received if and only if the ledger
\* holds a value recorded with that kind.
C35_ReceivedKindsAreLedgerKinds ==
    \A sid \in Sessions \cap DOMAIN state_managers :
        Manager(sid).received_fact_types = LedgerKinds(Manager(sid))


\* C36: the emotional state that the prompt of the k-th processed message of
\* a session carries is the one that the thresholds give to turn k
\* (high_anxiety for 1..3, technical_confusion for 4..7, frustration for
\* 8..10, suspicion from 11 on).
C36_PromptEmotionOfTheTurn ==
    ThroughGenerator =>
        last_call.emotion =
            (CASE last_call.turn_count_before + 1 \in 1..3 -> "high_anxiety"
               [] last_call.turn_count_before + 1 \in 4..7 -> "technical_confusion"
               [] last_call.turn_count_before + 1 \in 8..10 -> "frustration"
               [] OTHER -> "suspicion")

-----------------------------------------------------------------------------
(* SpecSentiment: the turns of a session, recorded with update_turn, and   *)
(* direct calls of get_sentiment_shift in between.                         *)

MaxSentimentTurns == 12

\* state_manager.get_sentiment_shift
annoyances ==
    << <<Snt({"at", "best,", "i'm", "me!", "my", "shouting", "stop", "trying"}, {"compliance"}, <<>>, 40)>>,
       <<Snt({"is", "long?", "so", "taking", "this", "why"}, {}, <<>>, 27),
          Snt({"getting", "of", "this.", "tired"}, {}, <<>>, 22)>>,
       <<Snt({"doing", "everything!", "i'm"}, {"compliance"}, <<>>, 21),
          Snt({"aggressive!", "being", "stop"}, {}, <<>>, 22)>>,
       <<Snt({"calmly,", "explain", "me", "out!", "stressing", "this", "you're"}, {}, <<>>, 45)>>,
       <<Snt({"appreciate", "down.", "i", "if", "slow", "you"}, {}, <<>>, 30),
          Snt({"i'm", "okay?", "trying,"}, {"compliance"}, <<>>, 17)>> >>

\* get_sentiment_shift that starts after turn 10
get_sentiment_shift_after_ten(mgr, rnd) ==
    [mgr |-> mgr,
     out |-> IF mgr.turn_count > 10 THEN random_choice(annoyances, rnd) ELSE <<>>]

\* state_manager.get_sentiment_shift: [mgr, out]; out is <<>> for ""
get_sentiment_shift(mgr, rnd) ==
    [mgr |-> mgr,
     out |-> IF mgr.turn_count > 7 THEN random_choice(annoyances, rnd) ELSE <<>>]

\* the draws of random.choice(annoyances)
SentimentDraws == {0, 1, 4}

\* state_mgr.get_sentiment_shift(); probe keeps the state manager as it was
\* before the call
ApiSentimentShift(sid, rnd) ==
    \E r \in {get_sentiment_shift(Manager(sid), rnd)} :
        /\ state_managers' = [state_managers EXCEPT ![sid] = r.mgr]
        /\ probe' = [op |-> "get_sentiment_shift", calls |-> probe.calls,
                     out |-> r.out, before |-> Manager(sid)]
        /\ ApiFrame

NextSentiment ==
    \E sid \in Sessions :
        \/ \E scammer_message \in {ScammerMessages[1], ScammerMessages[2]} :
                /\ Manager(sid).turn_count < MaxSentimentTurns
                /\ ApiUpdateTurn(sid, scammer_message, GeneratorReplies[4])
        \/ \E rnd \in SentimentDraws : ApiSentimentShift(sid, rnd)

SpecSentiment == InitEmotion /\ [][NextSentiment]_vars

\* C37: get_sentiment_shift returns a directive that is not empty if and only
\* if current_emotion is frustration or suspicion, which is the case if and
\* only if the turn counter is at least 8, and the call changes no state.
C37_SentimentShiftFromTurnEight ==
    /\ \A sid \in Sessions :
            Manager(sid).current_emotion \in {"frustration", "suspicion"}
                <=> Manager(sid).turn_count >= 8
    /\ probe.op = "get_sentiment_shift" =>
            /\ probe.out # <<>>
                    <=> probe.before.current_emotion \in {"frustration", "suspicion"}
            /\ probe.out # <<>> => probe.out \in Range(annoyances)
            /\ \A sid \in Sessions : Manager(sid) = probe.before

\* C37 witness: the call at turn counter 8 returned a directive
C37_Witness ==
    /\ probe.op = "get_sentiment_shift"
    /\ probe.before.turn_count = 8
    /\ probe.before.current_emotion = "frustration"
    /\ probe.out # <<>>

-----------------------------------------------------------------------------
(* SpecPrompt: turns of a session in which the draw for the category that  *)
(* the prompt announces and the draw inside get_next_tactic are made       *)
(* independently of each other, as two calls of random.choice are.         *)

MaxPromptTurns == 3

PromptDraws == {0, 1}

NextPrompt ==
    \E sid \in Sessions, generated \in PersistGenerated,
       rnd \in PromptDraws, rnd_prompt \in PromptDraws :
        /\ Len(history[sid]) < 2 * MaxPromptTurns
        /\ ProcessMessage(sid, ScammerMessages[1], generated, rnd, rnd_prompt, FALSE)

SpecPrompt == InitPayment /\ [][NextPrompt]_vars

\* C38: in the prompt built for a turn, the tactic text that is offered as the
\* suggestion is of the category that the prompt announces as the category the
\* next turn must use.
C38_SuggestedTacticOfAnnouncedCategory ==
    ThroughGenerator => last_call.next_tactic.category = last_call.next_cat


\* C39: active_topics and previous_topics have no topic in common, also after
\* the sender raises again a topic that was abandoned.
C39_ActiveAndPreviousDisjoint ==
    \A sid \in Sessions \cap DOMAIN state_managers :
        Manager(sid).active_topics \cap Manager(sid).previous_topics = {}


-----------------------------------------------------------------------------
(* The result callback.  main.process_message processes the message and    *)
(* schedules send_guvi_callback_if_ready as a background task.  The task   *)
(* runs after the response: it decides with should_trigger_callback,       *)
(* awaits the POST of send_callback, and marks the session when the POST   *)
(* succeeded.  The event loop runs other requests and other tasks while a  *)
(* task awaits, so a task is two steps: up to the await, and after it.     *)
(* The sessions are the in-memory ones (no database connected).            *)

MaxCallbackTurns == 4

CallbackMessages == {ScammerMessages[2], ScammerMessages[3], ScammerMessages[4]}

\* models.SessionState with the fields of the callback at their defaults
CallbackSession ==
    [turn_count |-> 0, intel |-> {}, total_messages |-> 0, turns |-> 0,
     scam_detected |-> FALSE, callback_sent |-> FALSE,
     callback_had_all_intel |-> FALSE, last_callback_turn |-> 0]

\* has_all_intel of should_trigger_callback and of send_guvi_callback_if_ready
has_all_intel(session) == {"bank", "phone", "upi", "link"} \subseteq session.intel

callback_turns == {3, 6, 10}

\* guvi_callback.should_trigger_callback: the branch that returns True, or
\* "none" when it returns False
callback_trigger(session) ==
    IF ~session.scam_detected THEN "none"
    ELSE IF session.turn_count \in callback_turns
            /\ session.turn_count > session.last_callback_turn THEN "turn"
    ELSE IF has_all_intel(session) /\ ~session.callback_had_all_intel THEN "all_intel"
    ELSE "none"

should_trigger_callback(session) == callback_trigger(session) # "none"

\* the background tasks of a session, in the order they were scheduled
Tasks(sid) == probe.tasks[sid]

InitCallback ==
    /\ llm_available = FALSE
    /\ state_managers = <<>>
    /\ session_states = [sid \in Sessions |-> CallbackSession]
    /\ history = [sid \in Sessions |-> <<>>]
    /\ last_call = NoCall
    /\ probe = [op |-> "callback", calls |-> 0, tasks |-> [sid \in Sessions |-> <<>>]]

\* main.process_message: honeypot.process_message, where update_session takes
\* scam_detected from the detection of this message, then the task is scheduled
MainProcessMessage(sid, scammer_message, is_scam) ==
    \E done \in {process_message(sid, scammer_message, [kind |-> "raise"], 0, 0, FALSE)} :
        /\ state_managers' = state_managers
        /\ session_states' = Put(session_states, sid,
                                 [done.session EXCEPT !.turns = @ + 1,
                                                      !.scam_detected = is_scam])
        /\ history' = [history EXCEPT ![sid] =
                            @ \o << [sender |-> "scammer", msg |-> scammer_message],
                                    [sender |-> "user", text |-> done.reply] >>]
        /\ last_call' = done.call
        /\ probe' = [probe EXCEPT !.tasks[sid] =
                            Append(@, [phase |-> "scheduled", trigger |-> "none",
                                       has_all_intel |-> FALSE, success |-> FALSE])]
        /\ UNCHANGED llm_available

\* send_guvi_callback_if_ready up to the await of send_callback
TaskCheck(sid, t) ==
    /\ Tasks(sid)[t].phase = "scheduled"
    /\ LET session == get_or_create_session(sid)
       IN  probe' = [probe EXCEPT !.tasks[sid][t] =
                        IF should_trigger_callback(session)
                        THEN [phase |-> "sending", trigger |-> callback_trigger(session),
                              has_all_intel |-> has_all_intel(session), success |-> FALSE]
                        ELSE [@ EXCEPT !.phase = "done"]]
    /\ UNCHANGED <<llm_available, state_managers, session_states, history, last_call>>

\* send_guvi_callback_if_ready after the await: success is what send_callback
\* returned (True for the status 200)
TaskReturn(sid, t, success) ==
    /\ Tasks(sid)[t].phase = "sending"
    /\ probe' = [probe EXCEPT !.tasks[sid][t].phase = "done",
                              !.tasks[sid][t].success = success,
                              !.calls = @ + 1]
    /\ session_states' =
            IF success
            THEN [session_states EXCEPT
                    ![sid].callback_sent = TRUE,
                    ![sid].callback_had_all_intel = Tasks(sid)[t].has_all_intel]
            ELSE session_states
    /\ UNCHANGED <<llm_available, state_managers, history, last_call>>

NextCallback ==
    \/ \E sid \in Sessions, scammer_message \in CallbackMessages, is_scam \in BOOLEAN :
            /\ Len(Tasks(sid)) < MaxCallbackTurns
            /\ MainProcessMessage(sid, scammer_message, is_scam)
    \/ \E sid \in Sessions : \E t \in DOMAIN Tasks(sid) : TaskCheck(sid, t)
    \/ \E sid \in Sessions : \E t \in DOMAIN Tasks(sid), success \in BOOLEAN :
            TaskReturn(sid, t, success)

SpecCallback == InitCallback /\ [][NextCallback]_vars

\* the tasks of a session whose callback was triggered by the all intel
\* condition and was accepted by the endpoint
AllIntelDelivered(sid) ==
    {t \in DOMAIN Tasks(sid) :
        /\ Tasks(sid)[t].trigger = "all_intel"
        /\ Tasks(sid)[t].phase = "done"
        /\ Tasks(sid)[t].success}

\* C40: for a session, the result callback triggered by the all intel
\* condition is sent at most once, under any interleaving of the processing
\* of the messages and of the background tasks
C40_AllIntelCallbackAtMostOnce ==
    \A sid \in Sessions : Cardinality(AllIntelDelivered(sid)) <= 1

=============================================================================
